---- MODULE Spec2Model ----
(***************************************************************************)
(* Model of the DecentraThon recommendation core: the push-text renderer   *)
(* (src/pushgen_llm.py), the product scorer (src/scorer.py, src/rules.py,  *)
(* src/config.py).                                                         *)
(*                                                                         *)
(* Text is modelled character by character.  A text is a string; the       *)
(* source's Cyrillic letters are written with one ASCII character each, so *)
(* that every length and every index is the one the Python code sees:      *)
(*   a b v g d e(e,yo,e') j(zh) z i y(i kratkoe) k l m n o p r s t u f h c *)
(*   q(ch) w(sh,shch) _(soft and hard sign) x(yery) u(yu) a(ya)            *)
(* upper case likewise; "-" is also the long dash, "$" the tenge sign,     *)
(* "#" the one-character ellipsis.                                         *)
(***************************************************************************)
EXTENDS Integers, Sequences, FiniteSets, TLC

VARIABLES
    md5,        \* the digests drawn so far: seed string -> integer
    text,       \* SpecText: the raw text handed to _smart_clamp / ensure_cta
    step,       \* SpecText: "input", "clamped", "ensured", "ensured2"
    arg,        \* SpecText: the other arguments of the call made
    result,     \* SpecText: what the call returned
    result2,    \* SpecText: ensure_cta applied to its own result
    req,        \* SpecPush: the arguments of generate_personalized_push
    pstep,      \* SpecPush: "idle", "generated", "again", "repaired"
    push,       \* SpecPush: the text generate_personalized_push returned
    push2,      \* SpecPush: what a second call with the same arguments returned
    fixed,      \* SpecPush: ensure_cta applied to push
    feats,      \* SpecScore: the feature record handed to score_products
    avg_balance, \* SpecScore: the average balance handed to score_products
    sstep,      \* SpecScore: "idle", "input", "scored", "rescored"
    scores,     \* SpecScore: product number -> score, in 1/10000 tenge
    top4,       \* SpecScore: the product numbers of the four best, best first
    best,       \* SpecScore: the product number of the best product
    top4_again, \* SpecScore: top4 of a second call on the same arguments
    best_again, \* SpecScore: best of a second call on the same arguments
    tx_client, \* SpecFeat: the spend rows of one client, each [date, category, amount]
    tr_client, \* SpecFeat: the transfer rows of the client, each [date, type, direction, amount]
    period, \* SpecFeat: the window [start, end]
    fbalance, \* SpecFeat: the avg_balance handed to compute_features_for_client
    fstep, \* SpecFeat: "idle", "input", "computed"
    features, \* SpecFeat: the record compute_features_for_client returned
    client, \* the row of the clients table the batch loop is at
    mstep, \* idle, row (before the loop body), done (after it)
    out_rows, \* the (client, product, push) rows collected so far
    csv, \* SpecLoad: the table of one csv file, [columns, rows], each row a map from column to cell
    lstep, \* file (read from disk), then call, read or built
    loaded, \* what the call, read_data or the batch builder made of the table
    _last_sent, \* SpecSend: client_code -> [ts, cta, product] of the last permitted send
    clock, \* SpecSend: time.time() in whole seconds
    calls, \* SpecSend: the can_send calls that returned, oldest first
    threads \* SpecRace: thread -> what its running can_send call has read

textVars == <<text, step, arg, result, result2>>
pushVars == <<req, pstep, push, push2, fixed>>
scoreVars == <<feats, avg_balance, sstep, scores, top4, best, top4_again, best_again>>
featVars == <<tx_client, tr_client, period, fbalance, fstep, features>>
mainVars == <<client, mstep, out_rows>>
loadVars == <<csv, lstep, loaded>>
sendVars == <<_last_sent, clock, calls, threads>>
vars == <<md5, text, step, arg, result, result2, req, pstep, push, push2, fixed,
          feats, avg_balance, sstep, scores, top4, best, top4_again, best_again,
          tx_client, tr_client, period, fbalance, fstep, features,
          client, mstep, out_rows,
          csv, lstep, loaded,
          _last_sent, clock, calls, threads>>

(***************************************************************************)
(* Python's str operations, with Python's 0-based indices.                 *)
(***************************************************************************)
Max2(a, b) == IF a >= b THEN a ELSE b
Min2(a, b) == IF a <= b THEN a ELSE b
SetMax(S) == CHOOSE m \in S : \A o \in S : o <= m

\* s[i] for 0 <= i < len(s)
At(s, i) == SubSeq(s, i + 1, i + 1)

\* s[:n]; a negative n counts from the end, as in Python
Prefix(s, n) ==
    IF n >= 0 THEN SubSeq(s, 1, Min2(n, Len(s)))
    ELSE SubSeq(s, 1, Max2(Len(s) + n, 0))

\* s[a:] for a >= 0
Suffix(s, a) == IF a >= Len(s) THEN "" ELSE SubSeq(s, a + 1, Len(s))

\* s.rfind(sub): the highest index where sub occurs, -1 when it does not
RFind(s, sub) ==
    LET hits == {i \in 0..(Len(s) - Len(sub)) : SubSeq(s, i + 1, i + Len(sub)) = sub}
    IN  IF hits = {} THEN -1 ELSE SetMax(hits)

\* the only whitespace character of the model's alphabet
Whitespace == {" "}

\* s.rstrip(chars)
RStripSet(s, chars) ==
    IF s = "" \/ SubSeq(s, Len(s), Len(s)) \notin chars THEN s
    ELSE LET keep == {i \in 1..Len(s) : SubSeq(s, i, i) \notin chars}
         IN  IF keep = {} THEN "" ELSE SubSeq(s, 1, SetMax(keep))

\* s.rstrip()
RStrip(s) == RStripSet(s, Whitespace)

\* s.strip()
LStrip(s) ==
    IF s = "" \/ SubSeq(s, 1, 1) \notin Whitespace THEN s
    ELSE LET keep == {i \in 1..Len(s) : SubSeq(s, i, i) \notin Whitespace}
         IN  IF keep = {} THEN ""
             ELSE SubSeq(s, CHOOSE m \in keep : \A o \in keep : m <= o, Len(s))

\* s.strip()
Strip(s) == LStrip(RStrip(s))

\* s.endswith((".", "!", "?"))
EndsWithAny(s, chars) == Len(s) > 0 /\ SubSeq(s, Len(s), Len(s)) \in chars

\* s.count("!")
CountBang(s) == Cardinality({i \in 1..Len(s) : SubSeq(s, i, i) = "!"})

\* re.sub(r"!{2,}", "!", s): every run of two or more "!" becomes one "!"
RECURSIVE CollapseBangs(_)
CollapseBangs(s) ==
    LET extra == {i \in 2..Len(s) : SubSeq(s, i, i) = "!" /\ SubSeq(s, i - 1, i - 1) = "!"}
    IN  IF extra = {} THEN s
        ELSE LET i == SetMax(extra)
             IN  CollapseBangs(SubSeq(s, 1, i - 1) \o Suffix(s, i))

(***************************************************************************)
(* The CTA vocabulary: \b(...)\b, re.IGNORECASE.                           *)
(***************************************************************************)
UpperLetters == "ABCDEFGHIJKLMNOPQRSTUVWXYZ"
LowerLetters == "abcdefghijklmnopqrstuvwxyz"
Digits == "0123456789"

UpperChars == {SubSeq(UpperLetters, i, i) : i \in 1..26}

LowerOf == [c \in UpperChars |->
              LET i == CHOOSE j \in 1..26 : SubSeq(UpperLetters, j, j) = c
              IN  SubSeq(LowerLetters, i, i)]

\* c.lower() of one character
Lower(c) == IF c \in UpperChars THEN LowerOf[c] ELSE c

\* the characters \w matches: letters, digits and the underscore
WordChars ==
    UpperChars \cup
    {SubSeq(LowerLetters, i, i) : i \in 1..26} \cup
    {SubSeq(Digits, i, i) : i \in 1..10} \cup {"_"}

\* the vocabulary without its last alternative
_CTA_RE_short ==
    {"otkrxt_", "oformit_", "podkluqit_", "podkluqite",
     "posmotret_", "nastroit_"}

\* the alternatives of _CTA_RE, in lower case
_CTA_RE ==
    {"otkrxt_", "oformit_", "podkluqit_", "podkluqite",
     "posmotret_", "nastroit_", "uznat_"}

\* the first letters of the alternatives
CtaInitials == {SubSeq(w, 1, 1) : w \in _CTA_RE}

\* whether word w matches at index i of t and a word boundary follows it
WordAt(t, i, w) ==
    /\ i + Len(w) <= Len(t)
    /\ \A k \in 0..(Len(w) - 1) : Lower(At(t, i + k)) = At(w, k)
    /\ (i + Len(w) = Len(t) \/ At(t, i + Len(w)) \notin WordChars)

\* the start indices of _CTA_RE.finditer(t): a word boundary, then one of the
\* alternatives (none is a prefix of another, and a match holds word characters
\* only, so no two matches overlap)
CtaMatches(t) ==
    {i \in 0..(Len(t) - 1) :
        /\ i = 0 \/ At(t, i - 1) \notin WordChars
        /\ Lower(At(t, i)) \in CtaInitials
        /\ \E w \in _CTA_RE : WordAt(t, i, w)}

\* _CTA_RE.search(t) is not None
HasCta(t) == CtaMatches(t) # {}

(***************************************************************************)
(* _smart_clamp                                                            *)
(***************************************************************************)
MAX_LEN == 220

Stops == <<". ", "! ", "? ">>

\* the for ... else of lines 50-61: the head cut at a sentence end within 40
\* characters of the budget, else at a space within 25, with an ellipsis
ClampHead(head, head_budget) ==
    LET hit == {n \in 1..3 : RFind(head, Stops[n]) >= head_budget - 40}
    IN  IF hit # {}
        THEN LET n == CHOOSE m \in hit : \A o \in hit : m <= o
             IN  RStrip(Prefix(head, RFind(head, Stops[n]) + 1))
        ELSE LET i == RFind(head, " ")
                 cut == IF i >= head_budget - 25 THEN Prefix(head, i) ELSE head
             IN  RStripSet(cut, {" ", ",", ";"}) \o "#"

\* a clamp that cuts at the cap wherever the CTA stands
_hard_clamp(txt, max_len) ==
    RStrip(Prefix(CollapseBangs(Strip(txt)), max_len))

_smart_clamp(txt, max_len) ==
    LET t == CollapseBangs(Strip(txt))
    IN  IF Len(t) <= max_len THEN t
        ELSE LET m_all == CtaMatches(t)
             IN  IF m_all # {}
                 THEN LET last == SetMax(m_all)
                          tail0 == RStrip(Suffix(t, last))
                          tail == IF EndsWithAny(tail0, {".", "!", "?"})
                                  THEN tail0 ELSE tail0 \o "."
                          head_budget == Max2(max_len - Len(tail) - 1, 0)
                          head == Prefix(t, head_budget)
                          cut == ClampHead(head, head_budget)
                      IN  Strip(cut \o " " \o tail)
                 ELSE LET cut == Prefix(t, max_len)
                          hit == {n \in 1..3 : RFind(cut, Stops[n]) >= max_len - 40}
                      IN  IF hit # {}
                          THEN LET n == CHOOSE m \in hit : \A o \in hit : m <= o
                               IN  RStrip(Prefix(cut, RFind(cut, Stops[n]) + 1))
                          ELSE LET i == RFind(cut, " ")
                                   c2 == IF i >= max_len - 25 THEN Prefix(cut, i) ELSE cut
                               IN  RStripSet(c2, {" ", ",", ";"}) \o "#"

(***************************************************************************)
(* _seeded_choice.  hashlib.md5 is a fixed function nobody can compute     *)
(* here: a behaviour draws the digest of each seed the first time the seed *)
(* is hashed and keeps it in md5, so one seed has one digest for ever.     *)
(* tab is the digest table a call reads.                                   *)
(***************************************************************************)
HashSpan == 4

NoDigests == [s \in {} |-> 0]

\* tables that draw the digest of every seed of seeds anew
FreshDigests(seeds) ==
    {g @@ md5 : g \in [seeds -> 0..(HashSpan - 1)]}

\* the tables that extend md5 with a digest for every seed of seeds
Digests(seeds) ==
    {md5 @@ g : g \in [seeds \ DOMAIN md5 -> 0..(HashSpan - 1)]}

_seeded_choice(seed, options, tab) ==
    IF options = <<>> THEN ""
    ELSE options[(tab[seed] % Len(options)) + 1]

pools ==
    ("Karta dla putewestviy" :> <<"Oformit_ kartu", "Oformit_ seyqas">>) @@
    ("Premial_naa karta" :> <<"Oformit_ seyqas", "Podkluqit_ kartu">>) @@
    ("Kreditnaa karta" :> <<"Oformit_ kartu", "Podkluqit_ kartu">>) @@
    ("Obmen valut" :> <<"Nastroit_ obmen", "Posmotret_ kurs">>) @@
    ("FX" :> <<"Nastroit_ obmen", "Posmotret_ kurs">>) @@
    ("Investicii" :> <<"Otkrxt_ sqet", "Posmotret_ uslovia">>) @@
    ("Kredit naliqnxmi" :> <<"Uznat_ limit", "Posmotret_ uslovia">>) @@
    ("Zolotxe slitki" :> <<"Posmotret_ uslovia", "Otkrxt_ v prilojenii">>)

default_pool == <<"Oformit_ seyqas", "Posmotret_", "Podkluqit_">>

CtaSeed(product, key) == key \o "|cta|" \o product

\* the selection with imperative forms in the default pool
_cta_imperative_default(product, key, tab) ==
    LET opts == IF product \in DOMAIN pools THEN pools[product]
                ELSE <<"Oformite seyqas", "Posmotrite", "Podkluqites_">>
    IN  _seeded_choice(CtaSeed(product, key), opts, tab)

_cta_for_product_var(product, key, tab) ==
    LET opts == IF product \in DOMAIN pools THEN pools[product] ELSE default_pool
    IN  _seeded_choice(CtaSeed(product, key), opts, tab)

(***************************************************************************)
(* The renderer's phrase builders.  An absent demographic value (None) is  *)
(* written "": status, city and month are only ever tested for truth or    *)
(* read as `x or ''`, so None and "" take the same branches.  ctx is a     *)
(* function from the keys it holds to their values.                        *)
(***************************************************************************)
\* sub in s.lower(), for a lower-case sub
InLower(sub, s) ==
    \E i \in 0..(Len(s) - Len(sub)) :
        \A k \in 0..(Len(sub) - 1) : Lower(At(s, i + k)) = At(sub, k)

\* str(n) of a natural number
RECURSIVE IntStr(_)
IntStr(n) ==
    IF n < 10 THEN At(Digits, n)
    ELSE IntStr(n \div 10) \o At(Digits, n % 10)

\* ctx.get(k, d)
Get(ctx, k, d) == IF k \in DOMAIN ctx THEN ctx[k] ELSE d

\* bool(ctx.get(k)) of a text value
TruthyStr(ctx, k) == k \in DOMAIN ctx /\ ctx[k] # ""

\* bool(ctx.get(k)) of a count
TruthyInt(ctx, k) == k \in DOMAIN ctx /\ ctx[k] # 0

\* f"{ctx.get(k)}" of a count
FmtInt(ctx, k) == IF k \in DOMAIN ctx THEN IntStr(ctx[k]) ELSE "None"

_norm_status(raw) ==
    LET s == Strip(raw)
    IN  IF InLower("student", s) THEN "Student"
        ELSE IF InLower("zarplat", s) THEN "Zarplatnxy klient"
        ELSE IF InLower("premi", s) THEN "Premial_nxy klient"
        ELSE "Standartnxy klient"

_month_hint(month) == IF Strip(month) # "" THEN Strip(month) ELSE "etom mesace"

_tone_preamble(name, status0, city) ==
    LET status == _norm_status(status0)
        name_part == IF name # "" THEN name \o "," ELSE "Zdravstvuyte,"
        city_hint == IF Strip(city) # "" THEN " v " \o Strip(city) ELSE ""
    IN  IF status = "Student"
        THEN name_part \o " esli qasto" \o city_hint \o
             " pol_zuetes_ servisami i taksi - est_ vxgodnee."
        ELSE IF status = "Premial_nxy klient"
        THEN name_part \o " s vawim profilem mojno optimizirovat_ rashodx i servis."
        ELSE IF status = "Zarplatnxy klient"
        THEN name_part \o " davayte sdelaem povsednevnxe plateji udobnee."
        ELSE name_part \o " smotrim na poslednie tratx i podbiraem luqwiy produkt."

\* "; ".join(parts) and " ".join(parts)
RECURSIVE Join(_, _)
Join(sep, parts) ==
    IF parts = <<>> THEN ""
    ELSE IF Len(parts) = 1 THEN parts[1]
    ELSE parts[1] \o sep \o Join(sep, Tail(parts))

\* the qualitative phrases of a product with no estimated benefit
candidates(product) ==
    IF product = "Karta dla putewestviy"
    THEN <<"Qast_ rashodov na poezdki vernulas_ bx kewbekom.",
           "Po poezdkam i taksi mojno poluqat_ vozvrat.">>
    ELSE IF product = "Premial_naa karta"
    THEN <<"Bazovxy kewbek i povxwennxy - na restoranx/kosmetiku.",
           "Povxwennxy kewbek i ekonomia na komissiah.">>
    ELSE IF product = "Kreditnaa karta"
    THEN <<"Do 10% v lubimxh kategoriah i na onlayn-servisx.",
           "Kewbek do 10% po qastxm tratam.">>
    ELSE IF product = "Obmen valut"
    THEN <<"Vxgodnxy kurs i avtopokupka po celi.",
           "Mojno nastroit_ avtopokupku po celevomu kursu.">>
    ELSE <<"Eto pomojet ekonomit_ i uprostit plateji.",
           "Podoydet po vawemu profilu rashodov.">>

_benefit_phrase(product, mon, ctx, key, tab) ==
    LET b == Get(ctx, "benefit_num", 0)
        b_txt == Get(ctx, "benefit", "0 $")
        travel == TruthyStr(ctx, "travel_sum")
        prem == TruthyStr(ctx, "premium_sum")
        online == TruthyStr(ctx, "online_sum")
        fav == TruthyStr(ctx, "top3_names") \/ TruthyStr(ctx, "fav")
        fees == TruthyInt(ctx, "atm_cnt") \/ TruthyInt(ctx, "transfer_cnt")
    IN  IF b <= 0
        THEN LET extra ==
                   (IF product = "Karta dla putewestviy" /\ travel
                    THEN <<"Poezdki: " \o ctx["travel_sum"]>> ELSE <<>>) \o
                   (IF product = "Premial_naa karta" /\ prem
                    THEN <<"Restoranx/kosmetika: " \o ctx["premium_sum"]>> ELSE <<>>) \o
                   (IF product = "Kreditnaa karta" /\ online
                    THEN <<"Onlayn-servisx: " \o ctx["online_sum"]>> ELSE <<>>) \o
                   (IF product = "Premial_naa karta" /\ fees
                    THEN <<"Snatia/perevodx: " \o FmtInt(ctx, "atm_cnt") \o "/" \o
                           FmtInt(ctx, "transfer_cnt")>> ELSE <<>>)
                 tail == IF extra # <<>> THEN ". " \o Join("; ", extra) ELSE ""
             IN  _seeded_choice(key \o "|bf0", candidates(product), tab) \o tail
        ELSE LET core == _seeded_choice(key \o "|bf",
                    <<"V " \o mon \o " orientirovoqnaa vxgoda ~" \o b_txt \o ".",
                      "Po vawemu profilu v " \o mon \o " vernulos_ bx okolo " \o b_txt \o ".",
                      "V " \o mon \o " mojno bxlo bx sekonomit_ primerno " \o b_txt \o ".",
                      "Ocenka vxgodx za " \o mon \o ": okolo " \o b_txt \o ".">>, tab)
                 reason_parts ==
                   (IF product = "Karta dla putewestviy" /\ travel
                    THEN <<"za sqet poezdok (" \o ctx["travel_sum"] \o ")">> ELSE <<>>) \o
                   (IF product = "Premial_naa karta" /\ prem
                    THEN <<"za sqet premial_nxh kategoriy (" \o ctx["premium_sum"] \o ")">>
                    ELSE <<>>) \o
                   (IF product = "Kreditnaa karta" /\ (fav \/ online)
                    THEN <<"za sqet lubimxh kategoriy i onlayn-servisov">> ELSE <<>>) \o
                   (IF product = "Premial_naa karta" /\ fees
                    THEN <<"i snijenia komissiy">> ELSE <<>>)
                 why == IF reason_parts # <<>>
                        THEN Strip(Join(" ", reason_parts) \o ".") ELSE ""
                 reason == " " \o _seeded_choice(key \o "|why", <<"", why>>, tab)
             IN  core \o reason

(***************************************************************************)
(* generate_personalized_push and ensure_cta                               *)
(***************************************************************************)
\* s.startswith(p)
StartsWith(s, p) == Len(s) >= Len(p) /\ SubSeq(s, 1, Len(p)) = p

\* the composite key every pool selection of one call is seeded with
PushKey(product, name, month, demo) ==
    name \o "|" \o product \o "|" \o _month_hint(month) \o "|" \o
    demo.status \o "|" \o demo.city

\* the product-specific lead sentence
Lead(product, mon, ctx, city) ==
    IF product = "Karta dla putewestviy"
    THEN "V " \o mon \o " zametnxe tratx na poezdki i taksi (" \o
         Get(ctx, "travel_sum", "0 $") \o "). "
    ELSE IF product = "Premial_naa karta"
    THEN "S vawim ostatkom i tratami v restoranah/kosmetike (" \o
         Get(ctx, "premium_sum", "0 $") \o ") vxgoda vxwe. "
    ELSE IF product = "Kreditnaa karta"
    THEN LET fav == IF TruthyStr(ctx, "top3_names") THEN ctx["top3_names"]
                    ELSE Get(ctx, "fav", "-")
         IN  "Vawi top-kategorii - " \o fav \o "; onlayn-servisx na " \o
             Get(ctx, "online_sum", "0 $") \o ". "
    ELSE IF product \in {"Obmen valut", "FX"}
    THEN "Nujen udobnxy kurs" \o
         (IF city # "" THEN " dla poezdok v " \o city ELSE "") \o
         "? Nastroyte avtopokupku. "
    ELSE IF StartsWith(product, "Depozit sber")
    THEN "Esli sredstva lejat bez snatiy - sberegatel_nxy vklad dast maksimum. "
    ELSE IF StartsWith(product, "Depozit nakop")
    THEN "Regularno popolnaete - kopite na celi bez snatiy. "
    ELSE IF StartsWith(product, "Depozit mul_ti")
    THEN "Hranite tenge i valutu vmeste s naqisleniem. "
    ELSE IF product = "Investicii"
    THEN "Nizkiy porog vhoda i snijennxe komissii dla akkuratnogo starta. "
    ELSE IF product = "Kredit naliqnxmi"
    THEN "Nujna poduwka na krupnxe tratx - oformite kredit i nastroyte vxplatx. "
    ELSE IF product = "Zolotxe slitki"
    THEN "Fiziqeskoe zoloto dla diversifikacii i sohranenia stoimosti. "
    ELSE "Podbiraem variant s naibol_wey pol_zoy dla vawego profila. "

\* max_len = 0 stands for None and for every value that is not a positive int
Limit(max_len) == IF max_len > 0 THEN max_len ELSE MAX_LEN

\* the text before clamping: preamble, lead, benefit phrase, CTA
PushMsg(product, name, month, ctx, demo, tab) ==
    LET pre == _tone_preamble(name, demo.status, demo.city)
        mon == _month_hint(month)
        key == PushKey(product, name, month, demo)
        cta == _cta_for_product_var(product, key, tab)
        lead == Lead(product, mon, ctx, demo.city)
        benefit == _benefit_phrase(product, mon, ctx, key, tab)
    IN  pre \o " " \o lead \o benefit \o " " \o cta \o "."

generate_personalized_push(product, name, month, ctx, demo, max_len, tab) ==
    _smart_clamp(PushMsg(product, name, month, ctx, demo, tab), Limit(max_len))

\* the seeds one call of generate_personalized_push hashes
PushSeeds(product, name, month, ctx, demo) ==
    LET key == PushKey(product, name, month, demo)
    IN  {CtaSeed(product, key)} \cup
        (IF Get(ctx, "benefit_num", 0) <= 0 THEN {key \o "|bf0"}
         ELSE {key \o "|bf", key \o "|why"})

\* ensure_cta; `key or product` seeds the pool selection
ensure_cta(product, txt, key, tab) ==
    IF Strip(txt) = "" THEN txt
    ELSE IF HasCta(txt) THEN txt
    ELSE LET cta == _cta_for_product_var(product, IF key # "" THEN key ELSE product, tab)
             cleaned == RStrip(RStripSet(RStrip(txt), {".", "!", "?"}))
         IN  cleaned \o ". " \o cta \o "."

\* the seeds one call of ensure_cta hashes
EnsureSeeds(product, txt, key) ==
    IF Strip(txt) = "" \/ HasCta(txt) THEN {}
    ELSE {CtaSeed(product, IF key # "" THEN key ELSE product)}

(***************************************************************************)
(* SpecText: _smart_clamp and ensure_cta on raw texts.                     *)
(***************************************************************************)
RECURSIVE Rep(_, _)
Rep(c, n) ==
    IF n <= 0 THEN ""
    ELSE IF n = 1 THEN c
    ELSE LET half == Rep(c, n \div 2)
         IN  half \o half \o (IF n % 2 = 1 THEN c ELSE "")

\* how far around each threshold of the clamp the separator of a long text
\* is placed
Spread == 2

\* 0-based places of the one separator of a long text: around the sentence
\* window (40 before the budget), the word window (25 before), and the cut
SepPlaces(budget) ==
    UNION {(budget - d - Spread)..(budget - d + Spread) : d \in {40, 25, 1}}

Separators == {" ", ". ", "! ", "? ", ", "}

\* n characters: a's, one separator at index at, then b's
Filler(n, sep, at) ==
    IF at < 0 \/ at + Len(sep) > n THEN Rep("a", n)
    ELSE Rep("a", at) \o sep \o Rep("b", n - at - Len(sep))

CtaSentences == {"Oformit_ seyqas.", "Otkrxt_ v prilojenii", "UZNAT_ limit!"}

\* texts of total characters that end with a CTA sentence after one space
LongCtaTexts(total) ==
    UNION {{Filler(total - Len(c) - 1, sep, at) \o " " \o c :
                sep \in Separators, at \in SepPlaces(MAX_LEN - Len(c) - 1)} :
           c \in CtaSentences}

\* texts of total characters without any CTA
LongPlainTexts(total) ==
    {Filler(total, sep, at) : sep \in Separators, at \in SepPlaces(MAX_LEN)}

ShortTexts ==
    {"", "  ", "...", "Privet", " Privet!! ", "Balans rastet...", "Kak dela?!",
     "pereoformit_ kartu", "oformite kredit i nastroyte vxplatx.",
     "Oformit_ kartu.", "UZNAT_ limit?", "Vam kewbek. Podkluqite kartu",
     "Privet. Oformit_ seyqas.", "Otkrxt_ " \o Rep("a", MAX_LEN + 10)}

TextInputs ==
    ShortTexts \cup LongCtaTexts(MAX_LEN + 1) \cup LongPlainTexts(MAX_LEN + 1)
    \cup LongPlainTexts(MAX_LEN)

Caps == {MAX_LEN, 100, 20, 5}

EnsureProducts ==
    {"Premial_naa karta", "Zolotxe slitki", "Kredit naliqnxmi", "Depozit nakopitel_nxy"}

Keys == {"", "17"}

InitFeatIdle ==
    /\ tx_client = <<>>
    /\ tr_client = <<>>
    /\ period = [start |-> 0, end |-> 0]
    /\ fbalance = 0
    /\ fstep = "idle"
    /\ features = NoDigests

InitMainIdle ==
    /\ client = NoDigests
    /\ mstep = "idle"
    /\ out_rows = <<>>

InitLoadIdle ==
    /\ csv = [columns |-> <<>>, rows |-> <<>>]
    /\ lstep = "idle"
    /\ loaded = NoDigests

InitSendIdle ==
    /\ _last_sent = NoDigests
    /\ clock = 0
    /\ calls = <<>>
    /\ threads = NoDigests

\* nothing handed to score_products
InitScoreIdle ==
    /\ feats = NoDigests
    /\ avg_balance = 0
    /\ sstep = "idle"
    /\ scores = NoDigests
    /\ top4 = <<>>
    /\ best = 0
    /\ top4_again = <<>>
    /\ best_again = 0

InitPushIdle ==
    /\ req = [product |-> "", name |-> "", month |-> "", ctx |-> NoDigests,
              demo |-> [status |-> "", city |-> ""], max_len |-> 0]
    /\ pstep = "idle"
    /\ push = ""
    /\ push2 = ""
    /\ fixed = ""

InitText ==
    /\ md5 = NoDigests
    /\ InitSendIdle
    /\ InitLoadIdle
    /\ InitMainIdle
    /\ InitFeatIdle
    /\ text \in TextInputs
    /\ step = "input"
    /\ arg = [max_len |-> 0, product |-> "", key |-> ""]
    /\ result = ""
    /\ result2 = ""
    /\ InitPushIdle
    /\ InitScoreIdle

\* _smart_clamp(text, max_len)
SmartClamp ==
    /\ step = "input"
    /\ \E max_len \in Caps :
          /\ arg' = [arg EXCEPT !.max_len = max_len]
          /\ result' = _smart_clamp(text, max_len)
    /\ step' = "clamped"
    /\ UNCHANGED <<md5, text, result2, pushVars, scoreVars, featVars, mainVars, loadVars, sendVars>>

\* ensure_cta(product, text, key)
EnsureCta ==
    /\ step = "input"
    /\ \E product \in EnsureProducts, key \in Keys :
          \E tab \in Digests(EnsureSeeds(product, text, key)) :
              /\ arg' = [arg EXCEPT !.product = product, !.key = key]
              /\ result' = ensure_cta(product, text, key, tab)
              /\ md5' = tab
    /\ step' = "ensured"
    /\ UNCHANGED <<text, result2, pushVars, scoreVars, featVars, mainVars, loadVars, sendVars>>

\* ensure_cta(product, ensure_cta(product, text, key), key)
EnsureCtaAgain ==
    /\ step = "ensured"
    /\ \E tab \in Digests(EnsureSeeds(arg.product, result, arg.key)) :
          /\ result2' = ensure_cta(arg.product, result, arg.key, tab)
          /\ md5' = tab
    /\ step' = "ensured2"
    /\ UNCHANGED <<text, arg, result, pushVars, scoreVars, featVars, mainVars, loadVars, sendVars>>

NextText == SmartClamp \/ EnsureCta \/ EnsureCtaAgain

SpecText == InitText /\ [][NextText]_vars

(***************************************************************************)
(* SpecPush: generate_personalized_push, called once and again with the    *)
(* same arguments, and ensure_cta on what it returned.                     *)
(***************************************************************************)
\* the catalog of scorer.py, in insertion order
PRODUCTS ==
    <<"Karta dla putewestviy", "Premial_naa karta", "Kreditnaa karta",
      "Obmen valut", "Kredit naliqnxmi", "Depozit mul_tivalutnxy",
      "Depozit sberegatel_nxy (s <zamorozkoy>)", "Depozit nakopitel_nxy",
      "Investicii (brokerskiy sqet)", "Zolotxe slitki">>

Catalog == {PRODUCTS[n] : n \in DOMAIN PRODUCTS}

\* the catalog, the two short identifiers the renderer also knows, and one
\* product outside the catalog
PushProducts == Catalog \cup {"FX", "Investicii", "Ipoteka"}

\* name, month label and demographics of the clients rendered for
Clients ==
    {[name |-> "Aygerim", month |-> "avguste",
      demo |-> [status |-> "Student", city |-> "Almatx"]],
     [name |-> "", month |-> "",
      demo |-> [status |-> "", city |-> ""]],
     [name |-> "Ay!da!", month |-> "avguste",
      demo |-> [status |-> "Premial_nxy klient", city |-> ""]],
     [name |-> "Ramazan", month |-> "mae",
      demo |-> [status |-> "Zarplatnxy klient", city |-> "Astana"]]}

\* the sums of one client as _build_ctx_map formats them
CtxSums ==
    [travel_sum |-> "48 200 $", premium_sum |-> "112 000 $",
     online_sum |-> "3 500 $", fav |-> "Taksi, Kafe i restoranx, Edim doma",
     atm_cnt |-> 2, transfer_cnt |-> 11]

Contexts ==
    {NoDigests,
     CtxSums @@ [benefit |-> "0 $", benefit_num |-> 0, top3_names |-> ""],
     CtxSums @@ [benefit |-> "14 820 $", benefit_num |-> 14820,
                 top3_names |-> "Taksi, Kafe i restoranx, Edim doma"]}

\* 0: max_len is None
MaxLens == {0, 150, 5}

InitTextIdle ==
    /\ text = ""
    /\ step = "idle"
    /\ arg = [max_len |-> 0, product |-> "", key |-> ""]
    /\ result = ""
    /\ result2 = ""

InitPush ==
    /\ md5 = NoDigests
    /\ InitSendIdle
    /\ InitLoadIdle
    /\ InitMainIdle
    /\ InitFeatIdle
    /\ InitPushIdle
    /\ InitTextIdle
    /\ InitScoreIdle

\* generate_personalized_push(product, name, month, ctx, demo, max_len)
Generate ==
    /\ pstep = "idle"
    /\ \E product \in PushProducts, c \in Clients, ctx \in Contexts, max_len \in MaxLens :
          \E tab \in Digests(PushSeeds(product, c.name, c.month, ctx, c.demo)) :
              /\ req' = [product |-> product, name |-> c.name, month |-> c.month,
                         ctx |-> ctx, demo |-> c.demo, max_len |-> max_len]
              /\ push' = generate_personalized_push(product, c.name, c.month, ctx,
                                                    c.demo, max_len, tab)
              /\ md5' = tab
    /\ pstep' = "generated"
    /\ UNCHANGED <<push2, fixed, textVars, scoreVars, featVars, mainVars, loadVars, sendVars>>

\* the same call once more
GenerateAgain ==
    /\ pstep = "generated"
    /\ \E tab \in Digests(PushSeeds(req.product, req.name, req.month, req.ctx, req.demo)) :
          /\ push2' = generate_personalized_push(req.product, req.name, req.month,
                                                 req.ctx, req.demo, req.max_len, tab)
          /\ md5' = tab
    /\ pstep' = "again"
    /\ UNCHANGED <<req, push, fixed, textVars, scoreVars, featVars, mainVars, loadVars, sendVars>>

\* ensure_cta(product, push, key), as the pipeline and the dashboard call it
EnsureGenerated ==
    /\ pstep = "generated"
    /\ \E key \in Keys :
          \E tab \in Digests(EnsureSeeds(req.product, push, key)) :
              /\ fixed' = ensure_cta(req.product, push, key, tab)
              /\ md5' = tab
    /\ pstep' = "repaired"
    /\ UNCHANGED <<req, push, push2, textVars, scoreVars, featVars, mainVars, loadVars, sendVars>>

NextPush == Generate \/ GenerateAgain \/ EnsureGenerated

SpecPush == InitPush /\ [][NextPush]_vars

(***************************************************************************)
(* SpecScore: score_products on one feature record.  Money is a whole      *)
(* number of tenge; a score is kept in 1/10000 tenge and a rate in         *)
(* 1/10000, so every product of the rules is a whole number.               *)
(***************************************************************************)
\* a sum of tenge as a score
Money(kzt) == kzt * 10000

\* BenefitConfig: rates in 1/10000, caps, fees and balances in tenge
travel_cb_rate == 400
travel_cb_monthly_cap == 15000
premium_base_cb_low == 200
premium_base_cb_high == 400
premium_high_balance_kzt == 2000000
premium_fee_savings_atm_per_tx == 300
premium_fee_savings_transfer_per_tx == 100
premium_cb_monthly_cap == 25000
cc_fav_rate == 1000
cc_online_rate == 1000
cc_cb_monthly_cap == 30000
fx_spread_saving_rate == 50
savings_high_rate == 1300
savings_accum_rate == 1000
multi_curr_rate == 700
invest_util_rate == 30
gold_util_rate == 20

\* cash_loan_need_ratio is 1.5: outflows / inflows >= 3 / 2.  A ratio is the
\* pair of its terms, and den = 0 is np.inf (no inflows)
ReachesNeedRatio(need_ratio) ==
    need_ratio.den = 0 \/ 2 * need_ratio.num >= 3 * need_ratio.den

_cap(value, cap_value) ==
    IF value <= 0 THEN 0 ELSE Min2(value, cap_value)

benefit_travel(travel_spend) ==
    _cap(travel_spend * travel_cb_rate, Money(travel_cb_monthly_cap))

\* the premium card with the fee savings under the cashback cap
benefit_premium_fees_capped(balance, base_spend, premium_spend, atm_cnt, transfer_cnt) ==
    LET base_rate == IF balance >= premium_high_balance_kzt
                     THEN premium_base_cb_high ELSE premium_base_cb_low
        base_cb == base_rate * Max2(base_spend, 0)
        boost_cb == 400 * Max2(premium_spend, 0)
        fees_saved == Max2(atm_cnt, 0) * Money(premium_fee_savings_atm_per_tx)
                      + Max2(transfer_cnt, 0) * Money(premium_fee_savings_transfer_per_tx)
    IN  _cap(base_cb + boost_cb + fees_saved, Money(premium_cb_monthly_cap))

\* the premium card with the fees charged instead of saved
benefit_premium_fees_charged(balance, base_spend, premium_spend, atm_cnt, transfer_cnt) ==
    LET base_rate == IF balance >= premium_high_balance_kzt
                     THEN premium_base_cb_high ELSE premium_base_cb_low
        base_cb == base_rate * Max2(base_spend, 0)
        boost_cb == 400 * Max2(premium_spend, 0)
        fees_saved == Max2(atm_cnt, 0) * Money(premium_fee_savings_atm_per_tx)
                      + Max2(transfer_cnt, 0) * Money(premium_fee_savings_transfer_per_tx)
    IN  _cap(base_cb + boost_cb, Money(premium_cb_monthly_cap)) - fees_saved

benefit_premium(balance, base_spend, premium_spend, atm_cnt, transfer_cnt) ==
    LET base_rate == IF balance >= premium_high_balance_kzt
                     THEN premium_base_cb_high ELSE premium_base_cb_low
        base_cb == base_rate * Max2(base_spend, 0)
        boost_cb == 400 * Max2(premium_spend, 0)
        fees_saved == Max2(atm_cnt, 0) * Money(premium_fee_savings_atm_per_tx)
                      + Max2(transfer_cnt, 0) * Money(premium_fee_savings_transfer_per_tx)
    IN  _cap(base_cb + boost_cb, Money(premium_cb_monthly_cap)) + Max2(fees_saved, 0)

benefit_credit_card(fav_spend_sum, online_spend) ==
    _cap(cc_fav_rate * Max2(fav_spend_sum, 0) + cc_online_rate * Max2(online_spend, 0),
         Money(cc_cb_monthly_cap))

benefit_fx(fx_turnover) == Max2(fx_turnover, 0) * fx_spread_saving_rate

benefit_cash_loan(need_ratio, shortfall_abs) ==
    IF ReachesNeedRatio(need_ratio) /\ shortfall_abs > 0
    THEN 100 * shortfall_abs ELSE 0

\* the savings deposit paid at the utility rate of gold
benefit_deposit_savings_gold_rate(free_balance_3m) ==
    Max2(free_balance_3m, 0) * gold_util_rate

benefit_deposit_savings(free_balance_3m) ==
    Max2(free_balance_3m, 0) * (savings_high_rate \div 4)

benefit_deposit_accum(free_balance_3m) ==
    Max2(free_balance_3m, 0) * (savings_accum_rate \div 4)

benefit_deposit_multi(free_balance_3m, fx_turnover) ==
    Max2(free_balance_3m, 0) * (multi_curr_rate \div 4) + 10 * Max2(fx_turnover, 0)

benefit_invest(free_balance_3m) == Max2(free_balance_3m, 0) * invest_util_rate

benefit_gold(free_balance_3m) == Max2(free_balance_3m, 0) * gold_util_rate

\* the scores dict of score_products, keyed by the product's number in PRODUCTS
ProductScores(f, balance) ==
    <<benefit_travel(f.TRAVEL_SPEND),
      benefit_premium(balance, f.TOTAL_SPEND, f.PREMIUM_SPEND, f.ATM_CNT, f.TRANSFER_CNT),
      benefit_credit_card(f.FAV_SPEND_SUM, f.ONLINE_SPEND),
      benefit_fx(f.FX_TURNOVER),
      benefit_cash_loan(f.NEED_RATIO, f.SHORTFALL),
      benefit_deposit_multi(f.FREE_BAL_3M, f.FX_TURNOVER),
      benefit_deposit_savings(f.FREE_BAL_3M),
      benefit_deposit_accum(f.FREE_BAL_3M),
      benefit_invest(f.FREE_BAL_3M),
      benefit_gold(f.FREE_BAL_3M)>>

\* list.reverse()
Reverse(s) == [n \in 1..Len(s) |-> s[Len(s) + 1 - n]]

\* one step of the stable ascending sort: p goes behind every item whose score
\* is not above its own
InsertAsc(done, p, sc) ==
    LET k == Cardinality({n \in 1..Len(done) : sc[done[n]] <= sc[p]})
    IN  SubSeq(done, 1, k) \o <<p>> \o SubSeq(done, k + 1, Len(done))

RECURSIVE SortAsc(_, _)
SortAsc(items, sc) ==
    IF items = <<>> THEN <<>>
    ELSE InsertAsc(SortAsc(SubSeq(items, 1, Len(items) - 1), sc),
                   items[Len(items)], sc)

\* the ranking that lists ties the other way round: sorted(...)[::-1]
SortedThenReversed(sc) ==
    Reverse(SortAsc([n \in 1..Len(sc) |-> n], sc))

\* sorted(scores.items(), key=score, reverse=True) over the product numbers:
\* list.sort reverses the list, sorts it stably by rising key and reverses it
\* again
SortedByScore(sc) ==
    Reverse(SortAsc(Reverse([n \in 1..Len(sc) |-> n]), sc))

Top4(sc) == SubSeq(SortedByScore(sc), 1, 4)

\* the feature records score_products is run on: spends that are negative
\* (refunds), zero, below and above the caps; ratios below, at and above the
\* threshold and without inflows
FeatureInputs ==
    [TRAVEL_SPEND : {-1200, 48200, 500000},
     TOTAL_SPEND : {-5000, 0, 300000, 2000000},
     PREMIUM_SPEND : {0, 112000},
     ONLINE_SPEND : {0, 3500},
     FAV_SPEND_SUM : {0, 400000},
     ATM_CNT : {0, 2},
     TRANSFER_CNT : {0, 11},
     NEED_RATIO : {[num |-> 0, den |-> 1], [num |-> 7, den |-> 5],
                   [num |-> 3, den |-> 2], [num |-> 1, den |-> 0]},
     SHORTFALL : {0, 60000},
     FX_TURNOVER : {0, 250000, 1875000},
     FREE_BAL_3M : {0, 125000}]

Balances == {-100000, 500000, 2000000}

InitScore ==
    /\ md5 = NoDigests
    /\ InitSendIdle
    /\ InitLoadIdle
    /\ InitMainIdle
    /\ InitFeatIdle
    /\ InitTextIdle
    /\ InitPushIdle
    /\ feats \in FeatureInputs
    /\ avg_balance \in Balances
    /\ sstep = "input"
    /\ scores = NoDigests
    /\ top4 = <<>>
    /\ best = 0
    /\ top4_again = <<>>
    /\ best_again = 0

\* score_products(feats, avg_balance)
ScoreProducts ==
    /\ sstep = "input"
    /\ scores' = ProductScores(feats, avg_balance)
    /\ top4' = Top4(scores')
    /\ best' = top4'[1]
    /\ sstep' = "scored"
    /\ UNCHANGED <<md5, feats, avg_balance, top4_again, best_again, textVars, pushVars, featVars, mainVars, loadVars, sendVars>>

\* score_products(feats, avg_balance) once more
ScoreProductsAgain ==
    /\ sstep = "scored"
    /\ top4_again' = Top4(ProductScores(feats, avg_balance))
    /\ best_again' = top4_again'[1]
    /\ sstep' = "rescored"
    /\ UNCHANGED <<md5, feats, avg_balance, scores, top4, best, textVars, pushVars, featVars, mainVars, loadVars, sendVars>>

NextScore == ScoreProducts \/ ScoreProductsAgain

SpecScore == InitScore /\ [][NextScore]_vars

(***************************************************************************)
(* Claims about the renderer.                                              *)
(***************************************************************************)
\* the text from the last CTA match to the end ("" without a match)
CtaTail(t) == IF HasCta(t) THEN Suffix(t, SetMax(CtaMatches(t))) ELSE ""

\* the text values among the arguments of the recorded call hold no CTA word
NoCtaInInputs ==
    /\ ~HasCta(req.name) /\ ~HasCta(req.demo.city) /\ ~HasCta(req.month)
    /\ \A k \in DOMAIN req.ctx \ {"benefit_num", "atm_cnt", "transfer_cnt"} :
          ~HasCta(req.ctx[k])

\* the message of the recorded call before _smart_clamp
Unclamped ==
    PushMsg(req.product, req.name, req.month, req.ctx, req.demo, md5)

\* the longest CTA of the pools
LongestCta ==
    SetMax({Len(pools[p][n]) : p \in DOMAIN pools, n \in 1..2} \cup
           {Len(default_pool[n]) : n \in 1..3})

\* C1: every text generate_personalized_push returns is at most max_len long
\* (MAX_LEN when max_len is absent or not a positive integer).
C1_PushWithinMaxLen ==
    pstep # "idle" => Len(push) <= Limit(req.max_len)

\* C2: a text of exactly 221 characters that ends with a CTA sentence is clamped
\* to 220 into a text of at most 220 characters that ends with the same CTA
\* sentence, whatever its head holds.
C2_ClampKeepsCtaWithinCap ==
    (/\ step = "clamped" /\ arg.max_len = MAX_LEN /\ Len(text) = MAX_LEN + 1
     /\ HasCta(text) /\ EndsWithAny(text, {".", "!", "?"}))
    => /\ Len(result) <= MAX_LEN
       /\ CtaTail(result) = CtaTail(text)

\* C3: when the tail from the last CTA is by itself longer than max_len,
\* _smart_clamp still returns at most max_len characters.
C3_LongTailWithinCap ==
    (/\ step = "clamped"
     /\ Len(CtaTail(CollapseBangs(Strip(text)))) > arg.max_len)
    => Len(result) <= arg.max_len

\* C4: every generated text holds exactly one match of the CTA vocabulary, for
\* every catalog product, when the inputs themselves hold no CTA word.
C4_ExactlyOneCta ==
    (pstep # "idle" /\ req.product \in Catalog /\ NoCtaInInputs)
    => Cardinality(CtaMatches(push)) = 1

\* C5: every generated text holds at most one "!".
C5_AtMostOneBang ==
    pstep # "idle" => CountBang(push) <= 1

\* C6: ensure_cta returns every generated text unchanged, clamped or not.
C6_EnsureKeepsPush ==
    pstep = "repaired" => fixed = push

\* C6 witness: a text that was clamped went through ensure_cta.
C6_Witness ==
    pstep = "repaired" /\ fixed = push /\ push # Unclamped

C8_EnsureIdempotent ==
    /\ step = "ensured2" => result2 = result
    /\ (step \in {"ensured", "ensured2"} /\ HasCta(text)) => result = text

\* C8 witness: the first call appended a CTA, the second call ran.
C8_Witness ==
    step = "ensured2" /\ result # text /\ result2 = result

NonNegativeFeats ==
    /\ \A k \in DOMAIN feats \ {"NEED_RATIO"} : feats[k] >= 0
    /\ feats.NEED_RATIO.num >= 0 /\ feats.NEED_RATIO.den >= 0

\* C10: for a feature record whose numeric features are non-negative, and any
\* avg_balance, each of the ten scores of score_products is at least zero.
C10_ScoresNonNegative ==
    (sstep = "scored" /\ NonNegativeFeats)
    => /\ Len(scores) = Len(PRODUCTS)
       /\ \A p \in DOMAIN scores : scores[p] >= 0

\* C10 witness: a record of non-negative features under a negative balance was
\* scored, with fees saved and an uncovered shortfall both above zero.
C10_Witness ==
    /\ sstep = "scored" /\ NonNegativeFeats /\ avg_balance < 0
    /\ feats.ATM_CNT > 0 /\ feats.TOTAL_SPEND = 0 /\ feats.PREMIUM_SPEND = 0
    /\ scores[2] > 0 /\ scores[5] > 0
    /\ \A p \in DOMAIN scores : scores[p] >= 0

\* C11: top4 lists the four highest-scoring products by falling score, equal
\* scores in catalog order; best is its first entry; a second call on the same
\* features returns the same top4 and best.
C11_Top4Ranking ==
    /\ sstep \in {"scored", "rescored"} =>
          /\ Len(top4) = 4
          /\ \A n \in 1..3 :
                \/ scores[top4[n]] > scores[top4[n + 1]]
                \/ scores[top4[n]] = scores[top4[n + 1]] /\ top4[n] < top4[n + 1]
          /\ \A p \in DOMAIN PRODUCTS \ {top4[n] : n \in 1..4} :
                \/ scores[p] < scores[top4[4]]
                \/ scores[p] = scores[top4[4]] /\ p > top4[4]
          /\ best = top4[1]
    /\ sstep = "rescored" => top4_again = top4 /\ best_again = best

\* C11 witness: a second call ran on a record whose top4 holds two products of
\* equal score and leaves out a third product of that score.
C11_Witness ==
    /\ sstep = "rescored" /\ top4_again = top4 /\ best_again = best
    /\ scores[top4[3]] = scores[top4[4]]
    /\ \E p \in DOMAIN PRODUCTS : p > top4[4] /\ scores[p] = scores[top4[4]]
    /\ scores[top4[1]] > scores[top4[2]]

\* the tier rate of the premium card, in 1/10000
TierRate == IF avg_balance >= 2000000 THEN 400 ELSE 200

\* the fee savings of the premium card, as a score
FeeSavings == Money(300) * Max2(feats.ATM_CNT, 0) + Money(100) * Max2(feats.TRANSFER_CNT, 0)

\* C12 as stated: the premium-card score is min(rate * total_spend + 0.04 *
\* premium_spend, 25000) + 300 * atm_count + 100 * transfer_count, rate 0.04 from
\* a balance of 2,000,000 and 0.02 below.
C12_PremiumFormula ==
    sstep = "scored" =>
        scores[2] = Min2(TierRate * feats.TOTAL_SPEND + 400 * feats.PREMIUM_SPEND,
                         Money(25000))
                    + Money(300) * feats.ATM_CNT + Money(100) * feats.TRANSFER_CNT

\* C12 amended: the same with each spend and each count floored at zero before
\* it is multiplied; the fee savings stay outside the cap, so the score is above
\* 25,000 whenever the cashback is at its cap and a fee count is positive.
C12_PremiumFormulaFloored ==
    sstep = "scored" =>
        LET cashback == TierRate * Max2(feats.TOTAL_SPEND, 0)
                        + 400 * Max2(feats.PREMIUM_SPEND, 0)
        IN  /\ scores[2] = Min2(cashback, Money(25000)) + FeeSavings
            /\ (cashback >= Money(25000) /\ (feats.ATM_CNT > 0 \/ feats.TRANSFER_CNT > 0))
                  => scores[2] > Money(25000)

\* C12 witness: a record whose cashback is over the cap, with ATM withdrawals,
\* was scored above the cap.
C12_Witness ==
    /\ sstep = "scored" /\ feats.ATM_CNT > 0
    /\ TierRate * feats.TOTAL_SPEND > Money(25000)
    /\ scores[2] = Money(25000) + FeeSavings
    /\ scores[2] > Money(25000)

(***************************************************************************)
(* SpecFeat: compute_features_for_client on the rows of one client.  A     *)
(* date is a day number, NaT the null timestamp; an amount is a whole      *)
(* number of tenge.                                                        *)
(***************************************************************************)
NaT == -1

\* a comparison with NaT is False in pandas
DateGe(d, t) == d # NaT /\ t # NaT /\ d >= t
DateLt(d, t) == d # NaT /\ t # NaT /\ d < t

TRAVEL_CATS == {"Putewestvia", "Taksi", "Oteli", "AZS"}
PREMIUM_BOOST_CATS == {"Uvelirnxe ukrawenia", "Kosmetika i Parfumeria", "Kafe i restoranx"}
ONLINE_CATS == {"Edim doma", "Smotrim doma", "Igraem doma"}

\* the window test with both ends counted
InPeriodClosed(row, span) ==
    DateGe(row.date, span.start) /\ ~DateLt(span.end, row.date)

\* (df["date"] >= start) & (df["date"] < end)
InPeriod(row, span) ==
    DateGe(row.date, span.start) /\ DateLt(row.date, span.end)

\* df[mask]: the rows of the window, in table order
Window(rows, span) ==
    LET keep(row) == InPeriod(row, span) IN SelectSeq(rows, keep)

RECURSIVE SumAmount(_)
SumAmount(rows) ==
    IF rows = <<>> THEN 0 ELSE rows[1].amount + SumAmount(Tail(rows))

Abs(n) == IF n < 0 THEN 0 - n ELSE n

RECURSIVE SumAbsAmount(_)
SumAbsAmount(rows) ==
    IF rows = <<>> THEN 0 ELSE Abs(rows[1].amount) + SumAbsAmount(Tail(rows))

\* df.loc[df["category"].isin(cats), "amount"].sum()
SumInCats(rows, cats) ==
    LET keep(row) == row.category \in cats IN SumAmount(SelectSeq(rows, keep))

\* the groups of groupby("category")["amount"].sum()
CategorySums(rows) ==
    [c \in {rows[n].category : n \in DOMAIN rows} |-> SumInCats(rows, {c})]

\* top_categories: the category lists sort_values(ascending=False) can give, cut
\* to topn; the sort is not stable, so equal sums come in either order
top_categories(rows, topn) ==
    LET grp == CategorySums(rows)
        cnt == Cardinality(DOMAIN grp)
        orders == {o \in [1..cnt -> DOMAIN grp] :
                      /\ \A a, b \in 1..cnt : a # b => o[a] # o[b]
                      /\ \A a \in 1..(cnt - 1) : grp[o[a]] >= grp[o[a + 1]]}
    IN  {SubSeq(o, 1, Min2(topn, cnt)) : o \in orders}

\* the record with FX_TURNOVER summed over the whole transfer table
compute_features_fx_unfiltered(tx, tr, avg_bal, span, fav_cats) ==
    LET txm == Window(tx, span)
        trm == Window(tr, span)
        grp == CategorySums(txm)
        is_out(row) == row.direction = "out"
        is_in(row) == row.direction = "in"
        is_atm(row) == row.type = "atm_withdrawal" /\ row.direction = "out"
        is_transfer(row) ==
            row.type \in {"p2p_out", "card_out", "utilities_out"} /\ row.direction = "out"
        is_fx(row) == row.type \in {"fx_buy", "fx_sell"}
        inflows == SumAmount(SelectSeq(trm, is_in))
        outflows == SumAmount(SelectSeq(trm, is_out))
    IN  [TOTAL_SPEND |-> SumAmount(txm),
         TRAVEL_SPEND |-> SumInCats(txm, TRAVEL_CATS),
         PREMIUM_SPEND |-> SumInCats(txm, PREMIUM_BOOST_CATS),
         ONLINE_SPEND |-> SumInCats(txm, ONLINE_CATS),
         FAV_SPEND_SUM |-> SumInCats(txm, {fav_cats[n] : n \in DOMAIN fav_cats}),
         ATM_CNT |-> Len(SelectSeq(trm, is_atm)),
         TRANSFER_CNT |-> Len(SelectSeq(trm, is_transfer)),
         NEED_RATIO |-> IF inflows > 0 THEN [num |-> outflows, den |-> inflows]
                        ELSE [num |-> 1, den |-> 0],
         SHORTFALL |-> Max2(0, outflows - inflows),
         FX_TURNOVER |-> SumAbsAmount(SelectSeq(tr, is_fx)),
         FREE_BAL_3M |-> (avg_bal * 3) \div 12,
         FAV_CATS |-> fav_cats]

\* the record compute_features_for_client returns when top_categories gave
\* fav_cats; NEED_RATIO is the pair outflows / inflows, den = 0 for np.inf
compute_features_for_client(tx, tr, avg_bal, span, fav_cats) ==
    LET txm == Window(tx, span)
        trm == Window(tr, span)
        is_out(row) == row.direction = "out"
        is_in(row) == row.direction = "in"
        is_atm(row) == row.type = "atm_withdrawal" /\ row.direction = "out"
        is_transfer(row) ==
            row.type \in {"p2p_out", "card_out", "utilities_out"} /\ row.direction = "out"
        is_fx(row) == row.type \in {"fx_buy", "fx_sell"}
        inflows == SumAmount(SelectSeq(trm, is_in))
        outflows == SumAmount(SelectSeq(trm, is_out))
    IN  [TOTAL_SPEND |-> SumAmount(txm),
         TRAVEL_SPEND |-> SumInCats(txm, TRAVEL_CATS),
         PREMIUM_SPEND |-> SumInCats(txm, PREMIUM_BOOST_CATS),
         ONLINE_SPEND |-> SumInCats(txm, ONLINE_CATS),
         FAV_SPEND_SUM |-> SumInCats(txm, {fav_cats[n] : n \in DOMAIN fav_cats}),
         ATM_CNT |-> Len(SelectSeq(trm, is_atm)),
         TRANSFER_CNT |-> Len(SelectSeq(trm, is_transfer)),
         NEED_RATIO |-> IF inflows > 0 THEN [num |-> outflows, den |-> inflows]
                        ELSE [num |-> 1, den |-> 0],
         SHORTFALL |-> Max2(0, outflows - inflows),
         FX_TURNOVER |-> SumAbsAmount(SelectSeq(trm, is_fx)),
         FREE_BAL_3M |-> (avg_bal * 3) \div 12,
         FAV_CATS |-> fav_cats]

\* the rows of pool whose numbers are in picked, in pool order
RowsOf(pool, picked) ==
    LET keep[n \in 0..Len(pool)] ==
            IF n = 0 THEN <<>>
            ELSE IF n \in picked THEN Append(keep[n - 1], pool[n]) ELSE keep[n - 1]
    IN  keep[Len(pool)]

\* spend rows a client table is made of: at the window's start, inside, at its
\* end, before it, without a date; two categories of equal sum; one refund
TxPool ==
    <<[date |-> 10, category |-> "Taksi", amount |-> 4200],
      [date |-> 19, category |-> "Kafe i restoranx", amount |-> 11200],
      [date |-> 20, category |-> "Taksi", amount |-> 900],
      [date |-> NaT, category |-> "Edim doma", amount |-> 350],
      [date |-> 9, category |-> "Edim doma", amount |-> 3500],
      [date |-> 15, category |-> "Produktx pitania", amount |-> 4200],
      [date |-> 14, category |-> "Produktx pitania", amount |-> -8000]>>

\* transfer rows a client table is made of
TrPool ==
    <<[date |-> 10, type |-> "atm_withdrawal", direction |-> "out", amount |-> 20000],
      [date |-> 20, type |-> "atm_withdrawal", direction |-> "out", amount |-> 5000],
      [date |-> NaT, type |-> "p2p_out", direction |-> "out", amount |-> 700],
      [date |-> 19, type |-> "card_out", direction |-> "out", amount |-> 1500],
      [date |-> 11, type |-> "salary_in", direction |-> "in", amount |-> 10000],
      [date |-> 13, type |-> "fx_buy", direction |-> "out", amount |-> 250000],
      [date |-> 9, type |-> "fx_sell", direction |-> "in", amount |-> 3000]>>

\* the windows: one month and the next
Periods == {[start |-> 10, end |-> 20], [start |-> 20, end |-> 31]}

\* average balances, whole multiples of 4 tenge
ClientBalances == {-100000, 480000}

InitFeat ==
    /\ md5 = NoDigests
    /\ InitSendIdle
    /\ InitLoadIdle
    /\ InitMainIdle
    /\ InitTextIdle
    /\ InitPushIdle
    /\ InitScoreIdle
    /\ tx_client \in {RowsOf(TxPool, picked) : picked \in SUBSET DOMAIN TxPool}
    /\ tr_client \in {RowsOf(TrPool, picked) : picked \in SUBSET DOMAIN TrPool}
    /\ period \in Periods
    /\ fbalance \in ClientBalances
    /\ fstep = "input"
    /\ features = NoDigests

\* compute_features_for_client(tx_client, tr_client, avg_balance, period)
ComputeFeatures ==
    /\ fstep = "input"
    /\ \E fav_cats \in top_categories(Window(tx_client, period), 3) :
          features' = compute_features_for_client(tx_client, tr_client, fbalance,
                                                  period, fav_cats)
    /\ fstep' = "computed"
    /\ UNCHANGED <<md5, tx_client, tr_client, period, fbalance,
                   textVars, pushVars, scoreVars, mainVars, loadVars, sendVars>>

NextFeat == ComputeFeatures

SpecFeat == InitFeat /\ [][NextFeat]_vars

(***************************************************************************)
(* Claims about the feature extractor.                                     *)
(***************************************************************************)
\* C13: the total spend of the record is at least each cluster spend.
C13_TotalCoversClusters ==
    fstep = "computed" =>
        /\ features.TOTAL_SPEND >= features.TRAVEL_SPEND
        /\ features.TOTAL_SPEND >= features.PREMIUM_SPEND
        /\ features.TOTAL_SPEND >= features.ONLINE_SPEND

\* no row of either table lies in the window
NoRowInWindow ==
    Window(tx_client, period) = <<>> /\ Window(tr_client, period) = <<>>

\* the sums, counts and the category list of the record are all zero or empty
ZeroAggregates ==
    /\ features.TOTAL_SPEND = 0 /\ features.TRAVEL_SPEND = 0
    /\ features.PREMIUM_SPEND = 0 /\ features.ONLINE_SPEND = 0
    /\ features.FAV_SPEND_SUM = 0 /\ features.FAV_CATS = <<>>
    /\ features.ATM_CNT = 0 /\ features.TRANSFER_CNT = 0
    /\ features.SHORTFALL = 0 /\ features.FX_TURNOVER = 0

\* C14 as stated: with no row in the window every field of the record is zero,
\* the ratio included, except FREE_BAL_3M = avg_balance * 3 / 12.
C14_EmptyAllZero ==
    (fstep = "computed" /\ NoRowInWindow) =>
        /\ ZeroAggregates
        /\ features.NEED_RATIO.num = 0 /\ features.NEED_RATIO.den # 0
        /\ 12 * features.FREE_BAL_3M = 3 * fbalance

\* C14 amended: with no row in the window every sum and count is zero and the
\* category list empty, NEED_RATIO is the infinite sentinel, and FREE_BAL_3M =
\* avg_balance * 3 / 12.
C14_EmptyZeroButRatio ==
    (fstep = "computed" /\ NoRowInWindow) =>
        /\ ZeroAggregates
        /\ features.NEED_RATIO.den = 0
        /\ 12 * features.FREE_BAL_3M = 3 * fbalance

\* C14 witness: both tables hold rows, none of them in the window, and the
\* record was computed for a balance other than zero.
C14_Witness ==
    /\ fstep = "computed" /\ NoRowInWindow
    /\ tx_client # <<>> /\ tr_client # <<>>
    /\ \E n \in DOMAIN tr_client : tr_client[n].type = "fx_sell"
    /\ features.FREE_BAL_3M = 120000 /\ features.NEED_RATIO.den = 0

\* the numbers of the rows dated from start up to the day before end
Dated(rows) ==
    {n \in DOMAIN rows : rows[n].date \in period.start..(period.end - 1)}

RECURSIVE SumRows(_, _)
SumRows(rows, picked) ==
    IF picked = {} THEN 0
    ELSE LET n == CHOOSE m \in picked : TRUE
         IN  rows[n].amount + SumRows(rows, picked \ {n})

\* C15: every aggregate of the record counts exactly the rows dated d with
\* start <= d < end: a row dated start counts, a row dated end or without a
\* date does not.
C15_HalfOpenWindow ==
    fstep = "computed" =>
        LET tx == tx_client
            tr == tr_client
            spent(cats) == SumRows(tx, {n \in Dated(tx) : tx[n].category \in cats})
            flow(dir) == SumRows(tr, {n \in Dated(tr) : tr[n].direction = dir})
            fx == {n \in Dated(tr) : tr[n].type \in {"fx_buy", "fx_sell"}}
            fav == {features.FAV_CATS[n] : n \in DOMAIN features.FAV_CATS}
        IN  /\ features.TOTAL_SPEND = SumRows(tx, Dated(tx))
            /\ features.TRAVEL_SPEND = spent(TRAVEL_CATS)
            /\ features.PREMIUM_SPEND = spent(PREMIUM_BOOST_CATS)
            /\ features.ONLINE_SPEND = spent(ONLINE_CATS)
            /\ fav \subseteq {tx[n].category : n \in Dated(tx)}
            /\ features.FAV_SPEND_SUM = spent(fav)
            /\ features.ATM_CNT =
                  Cardinality({n \in Dated(tr) : /\ tr[n].type = "atm_withdrawal"
                                                 /\ tr[n].direction = "out"})
            /\ features.TRANSFER_CNT =
                  Cardinality({n \in Dated(tr) :
                                  /\ tr[n].type \in {"p2p_out", "card_out", "utilities_out"}
                                  /\ tr[n].direction = "out"})
            /\ features.SHORTFALL = Max2(0, flow("out") - flow("in"))
            /\ features.NEED_RATIO =
                  IF flow("in") > 0 THEN [num |-> flow("out"), den |-> flow("in")]
                  ELSE [num |-> 1, den |-> 0]
            /\ features.FX_TURNOVER =
                  SumRows([n \in DOMAIN tr |-> [amount |-> Abs(tr[n].amount)]], fx)

\* C15 witness: the tables hold a row dated start, a row dated end and a row
\* without a date, and the record counts the first only.
C15_Witness ==
    /\ fstep = "computed" /\ period.start = 10
    /\ {tx_client[n].date : n \in DOMAIN tx_client} = {10, 20, NaT}
    /\ {tr_client[n].date : n \in DOMAIN tr_client} = {10, 20, NaT}
    /\ features.TOTAL_SPEND = 4200 /\ features.ATM_CNT = 1
    /\ features.TRANSFER_CNT = 0 /\ features.SHORTFALL = 20000

(***************************************************************************)
(* SpecMain: one pass of the batch loop of pipeline_llm for a client whose *)
(* tables hold no dated event.  Balances are whole tenge and multiples of  *)
(* four, so avg_bal * 3 / 12 is whole.                                     *)
(***************************************************************************)
MAX_PUSH_LEN == 220

\* f"{val:,}".replace(",", " ") of the digits of a natural number
RECURSIVE Group3(_)
Group3(digits) ==
    IF Len(digits) <= 3 THEN digits
    ELSE Group3(Prefix(digits, Len(digits) - 3)) \o " " \o
         Suffix(digits, Len(digits) - 3)

kzt(x) == (IF x < 0 THEN "-" ELSE "") \o Group3(IntStr(Abs(x))) \o " $"

\* ", ".join(cats)
RECURSIVE JoinComma(_)
JoinComma(cats) ==
    IF cats = <<>> THEN ""
    ELSE IF Len(cats) = 1 THEN cats[1]
    ELSE cats[1] \o ", " \o JoinComma(Tail(cats))

\* last_month_span(rows["date"])[0] is None
NoDates(table) == \A n \in DOMAIN table : table[n].date = NaT

\* the record the loop builds for a client without dated events
DefaultFeats(avg_bal) ==
    [TOTAL_SPEND |-> 0, TRAVEL_SPEND |-> 0, PREMIUM_SPEND |-> 0, ONLINE_SPEND |-> 0,
     FX_TURNOVER |-> 0, SHORTFALL |-> 0, FREE_BAL_3M |-> (avg_bal * 3) \div 12,
     FAV_CATS |-> <<>>, ATM_CNT |-> 0, TRANSFER_CNT |-> 0]

_build_demo(row) == [status |-> row.status, city |-> row.city]

_build_ctx_map(fts, avg_bal, benefit_num, top3_names) ==
    [travel_sum |-> kzt(fts.TRAVEL_SPEND), avg_balance |-> kzt(avg_bal),
     premium_sum |-> kzt(fts.PREMIUM_SPEND), online_sum |-> kzt(fts.ONLINE_SPEND),
     fx_turnover |-> kzt(fts.FX_TURNOVER), shortfall |-> kzt(fts.SHORTFALL),
     free_bal |-> kzt(fts.FREE_BAL_3M),
     fav |-> IF fts.FAV_CATS # <<>> THEN JoinComma(fts.FAV_CATS) ELSE "-",
     atm_cnt |-> fts.ATM_CNT, transfer_cnt |-> fts.TRANSFER_CNT,
     benefit |-> kzt(benefit_num), benefit_num |-> benefit_num,
     top3_names |-> top3_names]

\* rows of the clients table; avg_monthly_balance_kzt is <<>> when null
ClientRows ==
    [client_code : {17},
     name : {"Aygerim", "", "Klient", Rep("A", 210)},
     status : {"Student", "Premial_nxy klient", ""},
     city : {"Almatx", ""},
     avg_monthly_balance_kzt : {<<>>, <<0>>, <<480000>>, <<2000000>>}]

\* the rows of one client in a table: none, one without a date, one dated
ClientTables(pool) == {<<>>, <<pool[4]>>, <<pool[1]>>}

InitMain ==
    /\ md5 = NoDigests
    /\ InitSendIdle
    /\ InitLoadIdle
    /\ InitTextIdle
    /\ InitPushIdle
    /\ InitScoreIdle
    /\ client \in ClientRows
    /\ tx_client \in ClientTables(TxPool)
    /\ tr_client \in ClientTables([n \in 1..4 |-> TrPool[IF n = 4 THEN 3 ELSE n]])
    /\ period = [start |-> 0, end |-> 0]
    /\ fbalance = 0
    /\ fstep = "idle"
    /\ features = NoDigests
    /\ mstep = "row"
    /\ out_rows = <<>>

\* the loop body for a client with no date in either table
MainEmptyClient ==
    /\ mstep = "row"
    /\ NoDates(tx_client) /\ NoDates(tr_client)
    /\ LET val == client.avg_monthly_balance_kzt
           avg_bal == IF val # <<>> THEN val[1] ELSE 0
           product == "Premial_naa karta"
           month == "etom mesace"
           fts == DefaultFeats(avg_bal)
           demo == _build_demo(client)
           ctx_map == _build_ctx_map(fts, avg_bal, 0, "")
       IN  \E tab \in Digests(PushSeeds(product, client.name, month, ctx_map, demo)) :
             LET made == generate_personalized_push(product, client.name, month,
                                                    ctx_map, demo, MAX_PUSH_LEN, tab)
                 more == EnsureSeeds(product, made, "") \ DOMAIN tab
             IN  \E g \in [more -> 0..(HashSpan - 1)] :
                   /\ md5' = tab @@ g
                   /\ fbalance' = avg_bal
                   /\ features' = fts
                   /\ req' = [product |-> product, name |-> client.name,
                              month |-> month, ctx |-> ctx_map, demo |-> demo,
                              max_len |-> MAX_PUSH_LEN]
                   /\ push' = made
                   /\ fixed' = ensure_cta(product, made, "", tab @@ g)
                   /\ out_rows' = Append(out_rows, [client_code |-> client.client_code,
                                                    product |-> product,
                                                    push |-> ensure_cta(product, made, "", tab @@ g)])
    /\ mstep' = "done"
    /\ UNCHANGED <<client, tx_client, tr_client, period, fstep, pstep, push2,
                   textVars, scoreVars, loadVars, sendVars>>

NextMain == MainEmptyClient

SpecMain == InitMain /\ [][NextMain]_vars

(***************************************************************************)
(* Claims about the batch loop                                             *)
(***************************************************************************)
\* C16: a client with no dated event in either table gets the all-zero record
\* with FREE_BAL_3M = avg_balance * 3 / 12, the premium card, and a push of at
\* most 220 characters that holds a recognized CTA.
C16_EmptyClientPush ==
    mstep = "done" =>
        /\ features = DefaultFeats(fbalance)
        /\ 12 * features.FREE_BAL_3M = 3 * fbalance
        /\ out_rows[Len(out_rows)].product = "Premial_naa karta"
        /\ Len(out_rows[Len(out_rows)].push) <= 220
        /\ HasCta(out_rows[Len(out_rows)].push)

(***************************************************************************)
(* SpecLoad: the Normalizer on the table of one csv file: read_data of     *)
(* utils on a transactions table (transfers go the same way) and the batch *)
(* builder on one spend file.  An amount is a number of hundredths, <<>>   *)
(* is NaN / <NA>.  A date cell carries what the code can observe of it:    *)
(* whether it is null, whether the dotted pattern matches its text, and    *)
(* the day pd.to_datetime gives it with and without dayfirst (NaT when it  *)
(* cannot be parsed).  "~" stands for the no-break space.                  *)
(***************************************************************************)
RECURSIVE StrNat(_)
StrNat(digits) ==
    IF digits = "" THEN 0
    ELSE StrNat(Prefix(digits, Len(digits) - 1)) * 10 +
         (CHOOSE d \in 0..9 : At(Digits, d) = At(digits, Len(digits) - 1))

\* the four str.replace of the amount parsers: "~" and " " go, "," becomes ".",
\* then every character outside [0-9.\-] goes
RECURSIVE StripJunk(_)
StripJunk(s) ==
    IF s = "" THEN ""
    ELSE LET c == At(s, 0)
         IN  (IF c = "," THEN "."
              ELSE IF c = "." \/ c = "-" \/ (\E d \in 0..9 : At(Digits, d) = c) THEN c
              ELSE "") \o StripJunk(Suffix(s, 1))

\* pd.to_numeric(errors="coerce") of a text without exponent, blank or
\* inf/nan word: an optional "-", then digits with at most one "."
to_numeric(s) ==
    LET neg == Len(s) > 0 /\ At(s, 0) = "-"
        body == IF neg THEN Suffix(s, 1) ELSE s
        dots == {i \in 1..Len(body) : SubSeq(body, i, i) = "."}
        other == {i \in 1..Len(body) :
                     /\ SubSeq(body, i, i) # "."
                     /\ \A d \in 0..9 : At(Digits, d) # SubSeq(body, i, i)}
        point == IF dots = {} THEN Len(body) + 1 ELSE CHOOSE i \in dots : TRUE
        whole == Prefix(body, point - 1)
        frac == Prefix(Suffix(body, point) \o "00", 2)
        cents == StrNat(whole) * 100 + StrNat(frac)
    IN  IF other # {} \/ Cardinality(dots) > 1 \/ Len(body) = Cardinality(dots)
        THEN <<>>
        ELSE <<IF neg THEN 0 - cents ELSE cents>>

\* utils._parse_amount_series on one cell ("nan" is a null cell); NaN becomes 0.0
_parse_amount_series(cell) ==
    LET number == to_numeric(StripJunk(cell))
    IN  IF number = <<>> THEN 0 ELSE number[1]

\* build_data._to_amount_safe on one cell; NaN becomes 0.0
_to_amount_safe(cell) ==
    LET number == to_numeric(StripJunk(cell))
    IN  IF number = <<>> THEN 0 ELSE number[1]

\* utils._to_int64_nullable and build_data._cast_client_code on one cell
_to_int64_nullable(cell) ==
    IF to_numeric(cell) = <<>> THEN <<>> ELSE <<to_numeric(cell)[1] \div 100>>

\* utils._parse_dates_series on a column
_parse_dates_series(col) ==
    LET dotted == Cardinality({n \in DOMAIN col : col[n].dotted})
    IN  IF Len(col) > 0 /\ 2 * dotted >= Len(col)
        THEN [n \in DOMAIN col |-> col[n].dayfirst]
        ELSE [n \in DOMAIN col |-> col[n].free]

\* build_data._to_datetime_safe on a column
_to_datetime_safe(col) ==
    LET unparsed == Cardinality({n \in DOMAIN col : col[n].free = NaT})
        dotted == Cardinality({n \in DOMAIN col : col[n].dotted})
    IN  IF Len(col) > 0 /\ 2 * unparsed > Len(col) /\ 10 * dotted > 3 * Len(col)
        THEN [n \in DOMAIN col |-> col[n].dayfirst]
        ELSE [n \in DOMAIN col |-> col[n].free]

\* the resolution that takes the first column of the table that is a synonym
_coalesce_col_table_order(df, variants, required, default_val) ==
    LET hits == {m \in DOMAIN df.columns :
                    \E n \in DOMAIN variants : variants[n] = df.columns[m]}
    IN  IF hits # {}
        THEN [error |-> FALSE, name |-> df.columns[CHOOSE m \in hits : \A k \in hits : m <= k],
              variants |-> <<>>, columns |-> <<>>, df |-> df]
        ELSE IF required
        THEN [error |-> TRUE, name |-> "", variants |-> variants,
              columns |-> df.columns, df |-> df]
        ELSE [error |-> FALSE, name |-> variants[1], variants |-> <<>>,
              columns |-> <<>>,
              df |-> [columns |-> Append(df.columns, variants[1]),
                      rows |-> [n \in DOMAIN df.rows |->
                                   df.rows[n] @@ (variants[1] :> default_val)]]]

\* utils._coalesce_col and build_data.coalesce_col: the name returned, or the
\* KeyError with the lists its message names, and the table afterwards
_coalesce_col(df, variants, required, default_val) ==
    LET hits == {n \in DOMAIN variants :
                    \E m \in DOMAIN df.columns : df.columns[m] = variants[n]}
    IN  IF hits # {}
        THEN [error |-> FALSE, name |-> variants[CHOOSE n \in hits : \A k \in hits : n <= k],
              variants |-> <<>>, columns |-> <<>>, df |-> df]
        ELSE IF required
        THEN [error |-> TRUE, name |-> "", variants |-> variants,
              columns |-> df.columns, df |-> df]
        ELSE [error |-> FALSE, name |-> variants[1], variants |-> <<>>,
              columns |-> <<>>,
              df |-> [columns |-> Append(df.columns, variants[1]),
                      rows |-> [n \in DOMAIN df.rows |->
                                   df.rows[n] @@ (variants[1] :> default_val)]]]

\* the synonym lists of a spend table, in the order the loaders resolve them
Fields ==
    <<[variants |-> <<"date", "data">>, required |-> TRUE],
      [variants |-> <<"category", "kategoria", "cat">>, required |-> TRUE],
      [variants |-> <<"amount", "sum", "amount_kzt", "amt", "value", "summa">>,
       required |-> TRUE],
      [variants |-> <<"currency", "valuta", "curr">>, required |-> FALSE],
      [variants |-> <<"client_code", "clientid", "client_id", "id">>,
       required |-> TRUE]>>

\* the five resolutions of a spend table one after the other, each on the table
\* the one before left; a KeyError ends them
RECURSIVE Resolve(_, _)
Resolve(df, names) ==
    IF Len(names) = Len(Fields)
    THEN [error |-> FALSE, names |-> names, df |-> df]
    ELSE LET f == Fields[Len(names) + 1]
             r == _coalesce_col(df, f.variants, f.required, "KZT")
         IN  IF r.error THEN [error |-> TRUE, names |-> names, df |-> r.df]
             ELSE Resolve(r.df, Append(names, r.name))

\* the canonical rows of a resolved table, before any row is dropped
Canonical(df, names, dates) ==
    [n \in DOMAIN df.rows |->
        [date |-> dates[n], category |-> df.rows[n][names[2]],
         currency |-> df.rows[n][names[4]], amount |-> df.rows[n][names[3]],
         client_code |-> df.rows[n][names[5]]]]

\* the body of read_data for the transactions table: the date column as parsed
\* and the canonical rows
read_data(df) ==
    LET r == Resolve(df, <<>>)
        dates == _parse_dates_series([n \in DOMAIN df.rows |-> df.rows[n][r.names[1]]])
        rows == Canonical(r.df, r.names, dates)
    IN  IF r.error THEN [error |-> TRUE, dates |-> <<>>, rows |-> <<>>]
        ELSE [error |-> FALSE, dates |-> dates,
              rows |-> [n \in DOMAIN rows |->
                           [rows[n] EXCEPT !.amount = _parse_amount_series(@),
                                           !.client_code = _to_int64_nullable(@)]]]

\* drop_duplicates keeps the first of the rows that are equal
RECURSIVE drop_duplicates(_)
drop_duplicates(rows) ==
    IF rows = <<>> THEN <<>>
    ELSE LET last == rows[Len(rows)]
             front == drop_duplicates(SubSeq(rows, 1, Len(rows) - 1))
         IN  IF \E n \in DOMAIN front : front[n] = last THEN front
             ELSE Append(front, last)

\* sort_values(["client_code", "date"], kind="mergesort"): stable, NaT last
RECURSIVE sort_values(_)
sort_values(rows) ==
    IF rows = <<>> THEN <<>>
    ELSE LET last == rows[Len(rows)]
             front == sort_values(SubSeq(rows, 1, Len(rows) - 1))
             before(a, b) ==
                 \/ a.client_code[1] < b.client_code[1]
                 \/ /\ a.client_code[1] = b.client_code[1]
                    /\ a.date # NaT
                    /\ (b.date = NaT \/ a.date < b.date)
             after == {n \in DOMAIN front : before(last, front[n])}
             at == IF after = {} THEN Len(front) + 1
                   ELSE CHOOSE n \in after : \A k \in after : n <= k
         IN  SubSeq(front, 1, at - 1) \o <<last>> \o SubSeq(front, at, Len(front))

\* main of the batch builder for one spend file: the part of the file, then
\* the merged table written out
build_data(df) ==
    LET r == Resolve(df, <<>>)
        dates == _to_datetime_safe([n \in DOMAIN df.rows |-> df.rows[n][r.names[1]]])
        rows == Canonical(r.df, r.names, dates)
        part == SelectSeq([n \in DOMAIN rows |->
                              [rows[n] EXCEPT !.amount = _to_amount_safe(@),
                                              !.client_code = _to_int64_nullable(@)]],
                          LAMBDA row : row.client_code # <<>>)
    IN  IF r.error THEN [error |-> TRUE, dates |-> <<>>, rows |-> <<>>]
        ELSE [error |-> FALSE, dates |-> dates,
              rows |-> sort_values(drop_duplicates(part))]

\* the most rows a file of the model has
MaxRows == 4

\* the table of a file with the header h, the date column dates and the
\* amounts and identifiers taken in turn from the a-th and i-th cell on
CsvTable(h, dates, a, i) ==
    LET AmountCells == <<"1 234,50", "-500", "abc", "nan", "12.5.3", "5-",
                         "KZT 300", "1~000", ".5", "-">>
        IdCells == <<"abc", "17", "nan", "18">>
        names == {h[m] : m \in DOMAIN h}
        cell(c, n) ==
            IF c \in {"date", "data"} THEN dates[n]
            ELSE IF c \in {"category", "kategoria", "cat"} THEN "Taksi"
            ELSE IF c = "sum" /\ "amount" \in names THEN "999"
            ELSE IF c \in {"amount", "sum", "summa"}
            THEN AmountCells[((a + n) % Len(AmountCells)) + 1]
            ELSE IF c \in {"currency", "valuta"} THEN "USD"
            ELSE IdCells[((i + n) % Len(IdCells)) + 1]
    IN  [columns |-> h,
         rows |-> [n \in DOMAIN dates |-> [c \in names |-> cell(c, n)]]]

InitLoad ==
    /\ md5 = NoDigests
    /\ InitSendIdle
    /\ InitMainIdle
    /\ InitFeatIdle
    /\ InitTextIdle
    /\ InitPushIdle
    /\ InitScoreIdle
    /\ LET \* header lines: canonical, localized without currency, "sum" ahead
           \* of "amount", no amount column, no date column
           Headers ==
               {<<"date", "category", "amount", "currency", "client_code">>,
                <<"data", "kategoria", "summa", "id">>,
                <<"date", "cat", "sum", "amount", "client_id">>,
                <<"date", "category", "client_code">>,
                <<"category", "amount", "valuta", "clientid">>}
           \* date cells: ISO text, dotted text only the day-first parse reads,
           \* dotted text both parses read differently, other text, null
           DateCells ==
               {[null |-> FALSE, dotted |-> FALSE, free |-> 14, dayfirst |-> 14],
                [null |-> FALSE, dotted |-> TRUE, free |-> NaT, dayfirst |-> 15],
                [null |-> FALSE, dotted |-> TRUE, free |-> 62, dayfirst |-> 215],
                [null |-> FALSE, dotted |-> FALSE, free |-> NaT, dayfirst |-> NaT],
                [null |-> TRUE, dotted |-> FALSE, free |-> NaT, dayfirst |-> NaT]}
       IN  \E h \in Headers, len \in 1..MaxRows, a \in {0, 3, 6}, i \in {0, 1} :
             \E dates \in [1..len -> DateCells] : csv = CsvTable(h, dates, a, i)
    /\ lstep = "file"
    /\ loaded = NoDigests

\* one call of _coalesce_col / coalesce_col on the table
CoalesceCol ==
    /\ lstep = "file"
    /\ \E k \in DOMAIN Fields, required \in BOOLEAN :
          loaded' = [variants |-> Fields[k].variants, required |-> required,
                     returned |-> _coalesce_col(csv, Fields[k].variants, required, "KZT")]
    /\ lstep' = "call"
    /\ UNCHANGED <<md5, csv, textVars, pushVars, scoreVars, featVars, mainVars, sendVars>>

ReadData ==
    /\ lstep = "file"
    /\ loaded' = read_data(csv)
    /\ lstep' = "read"
    /\ UNCHANGED <<md5, csv, textVars, pushVars, scoreVars, featVars, mainVars, sendVars>>

BuildData ==
    /\ lstep = "file"
    /\ loaded' = build_data(csv)
    /\ lstep' = "built"
    /\ UNCHANGED <<md5, csv, textVars, pushVars, scoreVars, featVars, mainVars, sendVars>>

NextLoad == CoalesceCol \/ ReadData \/ BuildData

SpecLoad == InitLoad /\ [][NextLoad]_vars

(***************************************************************************)
(* Claims about the Normalizer                                             *)
(***************************************************************************)
\* a loader has returned a canonical table
Loaded == lstep \in {"read", "built"} /\ ~loaded.error

\* C17: every amount of a canonical table is a non-negative number, whatever
\* the raw text was.
C17_AmountsNonNegative ==
    Loaded => \A n \in DOMAIN loaded.rows : loaded.rows[n].amount >= 0

\* the values of a sequence
Range(f) == {f[n] : n \in DOMAIN f}

\* C18: column resolution returns the first synonym of the list that is a
\* column; with none present it raises the error naming the synonyms and the
\* columns and leaves the table as it was when the field is required, and adds
\* the first synonym as a column filled with the default when it is optional.
C18_ColumnResolution ==
    lstep = "call" =>
        LET v == loaded.variants
            r == loaded.returned
            present == {n \in DOMAIN v : v[n] \in Range(csv.columns)}
        IN  /\ present # {} =>
                  /\ ~r.error /\ r.df = csv
                  /\ \E n \in present : /\ r.name = v[n]
                                         /\ \A k \in 1..(n - 1) : k \notin present
            /\ (present = {} /\ loaded.required) =>
                  /\ r.error /\ r.df = csv
                  /\ r.variants = v /\ r.columns = csv.columns
            /\ (present = {} /\ ~loaded.required) =>
                  /\ ~r.error /\ r.name = v[1]
                  /\ r.df.columns = Append(csv.columns, v[1])
                  /\ \A n \in DOMAIN csv.rows :
                        /\ r.df.rows[n][v[1]] = "KZT"
                        /\ \A c \in Range(csv.columns) : r.df.rows[n][c] = csv.rows[n][c]

\* C18 witness: the amount was resolved in a table whose "sum" column stands
\* ahead of its "amount" column, and "amount" came back.
C18_Witness ==
    /\ lstep = "call"
    /\ csv.columns = <<"date", "cat", "sum", "amount", "client_id">>
    /\ loaded.variants[2] = "sum"
    /\ loaded.returned.name = "amount"

\* C19: in both loaders the date column is the day-first parse if more than
\* half of the non-null values failed the unconstrained parse and more than
\* 30% of the values match the dotted pattern, and the unconstrained parse in
\* every other case.
C19_DayFirstRetry ==
    Loaded =>
        LET col == [n \in DOMAIN csv.rows |->
                       csv.rows[n][IF "date" \in Range(csv.columns) THEN "date"
                                   ELSE "data"]]
            filled == {n \in DOMAIN col : ~col[n].null}
            failed == {n \in filled : col[n].free = NaT}
            dotted == {n \in DOMAIN col : col[n].dotted}
            retry == /\ 2 * Cardinality(failed) > Cardinality(filled)
                     /\ 10 * Cardinality(dotted) > 3 * Len(col)
        IN  loaded.dates = [n \in DOMAIN col |->
                               IF retry THEN col[n].dayfirst ELSE col[n].free]

\* C20: no row of a canonical table has a null client identifier.
C20_NoNullIdentifier ==
    Loaded => \A n \in DOMAIN loaded.rows : loaded.rows[n].client_code # <<>>

(***************************************************************************)
(* SpecKind: detect_table_kind of the batch builder on the table of one    *)
(* file.  A cell is "nan" when it is null.                                 *)
(***************************************************************************)
\* build_data.detect_table_kind: (is_transactions, is_transfers)
detect_table_kind(df) ==
    LET has(c) == \E m \in DOMAIN df.columns : df.columns[m] = c
        notna(c) == Cardinality({n \in DOMAIN df.rows : df.rows[n][c] # "nan"})
        is_tx == has("category") /\ ~has("direction")
        is_tr == has("type") /\ has("direction")
        cat_nonnull == IF has("category") THEN notna("category") ELSE 0
        type_has == has("type") /\ has("direction")
        type_nonnull == IF type_has THEN notna("type") ELSE 0
    IN  IF is_tx \/ is_tr THEN <<is_tx, is_tr>>
        ELSE IF cat_nonnull >= type_nonnull /\ has("category") THEN <<TRUE, FALSE>>
        ELSE IF type_has THEN <<FALSE, TRUE>>
        ELSE <<FALSE, FALSE>>

\* tables with any of the three telling columns after the date column, the
\* category and type cells populated or null row by row
InitKind ==
    /\ md5 = NoDigests
    /\ InitSendIdle
    /\ InitMainIdle
    /\ InitFeatIdle
    /\ InitTextIdle
    /\ InitPushIdle
    /\ InitScoreIdle
    /\ \E picked \in SUBSET {"category", "type", "direction"}, len \in 1..MaxRows :
          \E cats \in [1..len -> {"Taksi", "nan"}], types \in [1..len -> {"p2p_out", "nan"}] :
             csv = [columns |-> <<"date">> \o
                                SelectSeq(<<"category", "type", "direction">>,
                                          LAMBDA c : c \in picked),
                    rows |-> [n \in 1..len |->
                                 [c \in picked \cup {"date"} |->
                                     IF c = "category" THEN cats[n]
                                     ELSE IF c = "type" THEN types[n]
                                     ELSE IF c = "direction" THEN "out"
                                     ELSE "2025-08-14"]]]
    /\ lstep = "sheet"
    /\ loaded = NoDigests

DetectTableKind ==
    /\ lstep = "sheet"
    /\ loaded' = detect_table_kind(csv)
    /\ lstep' = "kind"
    /\ UNCHANGED <<md5, csv, textVars, pushVars, scoreVars, featVars, mainVars, sendVars>>

NextKind == DetectTableKind

SpecKind == InitKind /\ [][NextKind]_vars

(***************************************************************************)
(* Claims about the table kinds                                            *)
(***************************************************************************)
\* C21: a table with category and without direction is a spend table, one
\* with type and direction a transfer table; with category, type and direction
\* all present the kind is the one whose column holds more populated cells;
\* every other table is unrecognized.
C21_DetectTableKind ==
    lstep = "kind" =>
        LET has(c) == c \in Range(csv.columns)
            filled(c) == Cardinality({n \in DOMAIN csv.rows : csv.rows[n][c] # "nan"})
        IN  IF has("category") /\ has("type") /\ has("direction")
            THEN /\ filled("category") > filled("type") => loaded = <<TRUE, FALSE>>
                 /\ filled("type") > filled("category") => loaded = <<FALSE, TRUE>>
            ELSE IF has("category") /\ ~has("direction") THEN loaded = <<TRUE, FALSE>>
            ELSE IF has("type") /\ has("direction") THEN loaded = <<FALSE, TRUE>>
            ELSE loaded = <<FALSE, FALSE>>

(***************************************************************************)
(* SpecSend: can_send calls one after the other.  SpecRace: can_send calls *)
(* of two threads, each call in two steps, the reads of lines 42-43 and    *)
(* the rest; nothing in utils keeps a thread from running between them.    *)
(***************************************************************************)
MinHours == 48

\* the most can_send calls of one behaviour
MaxCalls == 3

\* can_send without the cooldown test
can_send_no_cooldown(sent, now, client_code, cta, product, min_hours) ==
    LET stamped == (client_code :> [ts |-> now, cta |-> cta, product |-> product]) @@ sent
        a == Strip(cta)
        b == IF client_code \in DOMAIN sent THEN Strip(sent[client_code].cta) ELSE ""
    IN  IF client_code \notin DOMAIN sent THEN [returned |-> TRUE, sent |-> stamped]
        ELSE IF Len(a) = Len(b) /\ \A k \in 0..(Len(a) - 1) : Lower(At(a, k)) = Lower(At(b, k))
        THEN [returned |-> FALSE, sent |-> sent]
        ELSE [returned |-> TRUE, sent |-> stamped]

\* can_send comparing the CTAs as they are
can_send_exact_cta(sent, now, client_code, cta, product, min_hours) ==
    LET stamped == (client_code :> [ts |-> now, cta |-> cta, product |-> product]) @@ sent
    IN  IF client_code \notin DOMAIN sent THEN [returned |-> TRUE, sent |-> stamped]
        ELSE IF now - sent[client_code].ts < min_hours * 3600
        THEN [returned |-> FALSE, sent |-> sent]
        ELSE IF cta = sent[client_code].cta THEN [returned |-> FALSE, sent |-> sent]
        ELSE [returned |-> TRUE, sent |-> stamped]

\* can_send recording the attempt when it refuses for the cooldown
can_send_stamps_refusal(sent, now, client_code, cta, product, min_hours) ==
    LET stamped == (client_code :> [ts |-> now, cta |-> cta, product |-> product]) @@ sent
        a == Strip(cta)
        b == IF client_code \in DOMAIN sent THEN Strip(sent[client_code].cta) ELSE ""
    IN  IF client_code \notin DOMAIN sent THEN [returned |-> TRUE, sent |-> stamped]
        ELSE IF now - sent[client_code].ts < min_hours * 3600
        THEN [returned |-> FALSE, sent |-> stamped]
        ELSE IF Len(a) = Len(b) /\ \A k \in 0..(Len(a) - 1) : Lower(At(a, k)) = Lower(At(b, k))
        THEN [returned |-> FALSE, sent |-> sent]
        ELSE [returned |-> TRUE, sent |-> stamped]

\* utils.can_send at the time now on the map sent: what it returns and the map
\* it leaves
can_send(sent, now, client_code, cta, product, min_hours) ==
    LET stamped == (client_code :> [ts |-> now, cta |-> cta, product |-> product]) @@ sent
        a == Strip(cta)
        b == IF client_code \in DOMAIN sent THEN Strip(sent[client_code].cta) ELSE ""
    IN  IF client_code \notin DOMAIN sent THEN [returned |-> TRUE, sent |-> stamped]
        ELSE IF now - sent[client_code].ts < min_hours * 3600
        THEN [returned |-> FALSE, sent |-> sent]
        ELSE IF Len(a) = Len(b) /\ \A k \in 0..(Len(a) - 1) : Lower(At(a, k)) = Lower(At(b, k))
        THEN [returned |-> FALSE, sent |-> sent]
        ELSE [returned |-> TRUE, sent |-> stamped]

InitSend ==
    /\ md5 = NoDigests
    /\ InitLoadIdle
    /\ InitMainIdle
    /\ InitFeatIdle
    /\ InitTextIdle
    /\ InitPushIdle
    /\ InitScoreIdle
    /\ _last_sent = NoDigests
    /\ clock \in {1000, 200000}
    /\ calls = <<>>
    /\ threads = NoDigests

\* one whole call, with the time that passed since the call before
CanSend ==
    /\ Len(calls) < MaxCalls
    /\ \E client_code \in {17, 18}, passed \in {0, 1, 172799, 172800},
          cta \in {"Oformit_ kartu", " oformit_ KARTU ", "Otkrxt_ sqet"} :
          LET out == can_send(_last_sent, clock + passed, client_code, cta,
                              "Kreditnaa karta", MinHours)
          IN  /\ clock' = clock + passed
              /\ _last_sent' = out.sent
              /\ calls' = Append(calls,
                     [client_code |-> client_code, cta |-> cta, now |-> clock + passed,
                      returned |-> out.returned, before |-> _last_sent,
                      seen |-> IF client_code \in DOMAIN _last_sent
                               THEN <<_last_sent[client_code]>> ELSE <<>>])
    /\ UNCHANGED <<md5, threads, textVars, pushVars, scoreVars, featVars, mainVars,
                   loadVars>>

NextSend == CanSend

SpecSend == InitSend /\ [][NextSend]_vars

\* lines 42-43 of a call: the clock and the entry of the client are read
CanSendRead(t) ==
    /\ t \notin DOMAIN threads
    /\ Len(calls) + Cardinality(DOMAIN threads) < MaxCalls
    /\ \E client_code \in {17, 18}, passed \in {0, 1, 172799, 172800},
          cta \in {"Oformit_ kartu", " oformit_ KARTU ", "Otkrxt_ sqet"} :
          /\ clock' = clock + passed
          /\ threads' = threads @@
                 (t :> [client_code |-> client_code, cta |-> cta, now |-> clock + passed,
                        last |-> IF client_code \in DOMAIN _last_sent
                                 THEN <<_last_sent[client_code]>> ELSE <<>>])
    /\ UNCHANGED <<md5, _last_sent, calls, textVars, pushVars, scoreVars, featVars,
                   mainVars, loadVars>>

\* lines 45-57 of the call: the tests on what was read, the write, the return
CanSendWrite(t) ==
    /\ t \in DOMAIN threads
    /\ LET r == threads[t]
           read == IF r.last = <<>> THEN NoDigests ELSE (r.client_code :> r.last[1])
           out == can_send(read, r.now, r.client_code, r.cta, "Kreditnaa karta", MinHours)
       IN  /\ _last_sent' = IF out.returned
                            THEN (r.client_code :> out.sent[r.client_code]) @@ _last_sent
                            ELSE _last_sent
           /\ calls' = Append(calls,
                  [client_code |-> r.client_code, cta |-> r.cta, now |-> r.now,
                   returned |-> out.returned, before |-> _last_sent, seen |-> r.last])
    /\ threads' = [u \in DOMAIN threads \ {t} |-> threads[u]]
    /\ UNCHANGED <<md5, clock, textVars, pushVars, scoreVars, featVars, mainVars,
                   loadVars>>

NextRace == \E t \in {1, 2} : CanSendRead(t) \/ CanSendWrite(t)

SpecRace == InitSend /\ [][NextRace]_vars

(***************************************************************************)
(* Claims about the rate limit                                             *)
(***************************************************************************)
\* the calls i < j were permitted for the same client
BothSent(i, j) ==
    /\ i < j
    /\ calls[i].client_code = calls[j].client_code
    /\ calls[i].returned /\ calls[j].returned

\* C22: any two calls for one client that both return True are at least
\* min_hours * 3600 seconds apart.
C22_CooldownBetweenSends ==
    \A i, j \in DOMAIN calls :
        BothSent(i, j) => calls[j].now - calls[i].now >= MinHours * 3600

\* C22 witness: a client was permitted, refused one second before the window
\* ended and permitted again one second later.
C22_Witness ==
    /\ Len(calls) = 3
    /\ \A n \in 1..3 : calls[n].client_code = 17
    /\ calls[1].returned /\ ~calls[2].returned /\ calls[3].returned
    /\ calls[2].now - calls[1].now = 172799
    /\ calls[3].now - calls[1].now = 172800

\* two CTAs are the same text once trimmed and lower-cased
SameCta(a, b) ==
    LET x == Strip(a)
        y == Strip(b)
    IN  /\ Len(x) = Len(y)
        /\ \A k \in 1..Len(x) : Lower(SubSeq(x, k, k)) = Lower(SubSeq(y, k, k))

\* C23: two calls for one client that return True with no permitted call for
\* the client between them never carry the same CTA, compared trimmed and
\* case-insensitively.
C23_NoRepeatedCta ==
    \A i, j \in DOMAIN calls :
        (/\ BothSent(i, j)
         /\ \A k \in (i + 1)..(j - 1) :
               ~(calls[k].returned /\ calls[k].client_code = calls[i].client_code))
        => ~SameCta(calls[i].cta, calls[j].cta)

\* C23 witness: after a permitted "Oformit_ kartu" the same CTA in other case
\* and with blanks around it was refused a whole window later, and another
\* CTA was permitted then.
C23_Witness ==
    /\ Len(calls) = 3
    /\ \A n \in 1..3 : calls[n].client_code = 17
    /\ calls[1].returned /\ calls[1].cta = "Oformit_ kartu"
    /\ ~calls[2].returned /\ calls[2].cta = " oformit_ KARTU "
    /\ calls[2].now - calls[1].now >= MinHours * 3600
    /\ calls[3].returned /\ calls[3].cta = "Otkrxt_ sqet"

\* C24: of two calls for one client that overlap, each reading the map before
\* the other writes it, at most one returns True within one cooldown window.
C24_GuardedMap ==
    \A i, j \in DOMAIN calls :
        (/\ i < j
         /\ calls[i].client_code = calls[j].client_code
         /\ calls[i].seen = calls[j].seen
         /\ calls[j].now - calls[i].now < MinHours * 3600)
        => ~(calls[i].returned /\ calls[j].returned)

\* C28: a call that returns False leaves the map as it was, and a call that
\* returns True changes the entry of its own client only.
C28_OnlyOwnEntry ==
    calls # <<>> =>
        LET c == calls[Len(calls)]
        IN  /\ ~c.returned => _last_sent = c.before
            /\ c.returned =>
                  /\ DOMAIN _last_sent = DOMAIN c.before \cup {c.client_code}
                  /\ \A k \in DOMAIN c.before \ {c.client_code} :
                        _last_sent[k] = c.before[k]
                  /\ _last_sent[c.client_code].ts = c.now

\* C28 witness: client 17 was refused inside its window, its entry still that
\* of its first send, and client 18 was permitted then without touching it.
C28_Witness ==
    /\ Len(calls) = 3
    /\ calls[1].client_code = 17 /\ calls[1].returned
    /\ calls[2].client_code = 17 /\ ~calls[2].returned
    /\ calls[2].now > calls[1].now
    /\ calls[3].client_code = 18 /\ calls[3].returned
    /\ _last_sent[17].ts = calls[1].now /\ _last_sent[18].ts = calls[3].now

(***************************************************************************)
(* Claims about the leads and the catalog                                  *)
(***************************************************************************)
\* C25: the message rendered for a catalog product never holds the generic
\* lead; that lead is for identifiers outside the catalog only.
C25_ProductLead ==
    (pstep # "idle" /\ req.product \in Catalog) =>
        RFind(Unclamped, "Podbiraem variant s naibol_wey pol_zoy dla vawego profila.") = -1


(***************************************************************************)
(* Claims about the products that can be recommended.                      *)
(***************************************************************************)
\* the numbers in PRODUCTS of the multi-currency deposit, the accumulation
\* deposit, investments and gold
NeverBest == {6, 8, 9, 10}

\* C26 as stated: for non-negative features and any avg_balance, best is none
\* of the multi-currency deposit, the accumulation deposit, investments and
\* gold, and each of these four is matched or beaten by FX exchange or the
\* savings deposit standing earlier in the catalog.
C26_BeatenByEarlierProduct ==
    (sstep = "scored" /\ NonNegativeFeats) =>
        /\ best \notin NeverBest
        /\ \A p \in NeverBest : \E q \in {4, 7} : q < p /\ scores[q] >= scores[p]

\* C26 amended: for non-negative features and any avg_balance, best is none of
\* the four; the accumulation deposit, investments and gold are matched or
\* beaten by the savings deposit standing before them, and the multi-currency
\* deposit is matched or beaten by FX exchange standing before it or strictly
\* beaten by the savings deposit standing after it.
C26_NeverRecommended ==
    (sstep = "scored" /\ NonNegativeFeats) =>
        /\ best \notin NeverBest
        /\ \A p \in {8, 9, 10} : scores[7] >= scores[p]
        /\ scores[4] >= scores[6] \/ scores[7] > scores[6]

\* C26 witness: non-negative features with a free balance and no FX turnover
\* were scored; the multi-currency deposit scores above every product before
\* it and the savings deposit is best.
C26_Witness ==
    /\ sstep = "scored" /\ NonNegativeFeats
    /\ feats.FREE_BAL_3M > 0 /\ feats.FX_TURNOVER = 0
    /\ \A q \in 1..5 : scores[q] < scores[6]
    /\ best = 7 /\ scores[7] > scores[6]

(***************************************************************************)
(* The window of the last month: last_month_span of utils.py.              *)
(***************************************************************************)
\* a timestamp is <<year, month, day, second of the day>>, NaT is <<>>;
\* a < b between two timestamps
StampLess(a, b) ==
    \E k \in 1..4 : a[k] < b[k] /\ \A j \in 1..(k - 1) : a[j] = b[j]

\* last_month_span(dates): Timestamp.replace changes the fields it is given
\* and keeps the others, the time of day among them
last_month_span(dates) ==
    LET s == SelectSeq(dates, LAMBDA d : d # <<>>)
        last_date == CHOOSE d \in {s[n] : n \in DOMAIN s} :
                        \A n \in DOMAIN s : ~StampLess(d, s[n])
        start == <<last_date[1], last_date[2], 1, last_date[4]>>
        next_start == IF start[2] = 12
                      THEN <<start[1] + 1, 1, 1, start[4]>>
                      ELSE <<start[1], start[2] + 1, 1, start[4]>>
    IN  IF s = <<>> THEN [start |-> <<>>, end |-> <<>>]
        ELSE [start |-> start, end |-> next_start]

\* the date column of a client's table
DateColumn(table) == [n \in DOMAIN table |-> table[n].date]

\* a client's purchases: up to three rows dated without a time of day, with
\* one, at the last second of a month or a year, or not dated at all
InitSpan ==
    /\ md5 = NoDigests
    /\ InitSendIdle
    /\ InitLoadIdle
    /\ InitMainIdle
    /\ InitTextIdle
    /\ InitPushIdle
    /\ InitScoreIdle
    /\ \E len \in 0..3 :
          tx_client \in [1..len ->
              {[date |-> d] : d \in {<<>>, <<2025, 7, 31, 86399>>, <<2025, 8, 1, 0>>,
                                     <<2025, 8, 1, 32400>>, <<2025, 8, 20, 55800>>,
                                     <<2025, 12, 1, 0>>, <<2025, 12, 31, 86399>>,
                                     <<2026, 1, 1, 0>>}}]
    /\ tr_client = <<>>
    /\ period = [start |-> <<>>, end |-> <<>>]
    /\ fbalance = 0
    /\ fstep = "dates"
    /\ features = NoDigests

\* dspan_tx = last_month_span(tx_client["date"])
LastMonthSpan ==
    /\ fstep = "dates"
    /\ period' = last_month_span(DateColumn(tx_client))
    /\ fstep' = "span"
    /\ UNCHANGED <<md5, tx_client, tr_client, fbalance, features,
                   textVars, pushVars, scoreVars, mainVars, loadVars, sendVars>>

NextSpan == LastMonthSpan

SpecSpan == InitSpan /\ [][NextSpan]_vars

\* the dated events of the client
DatedEvents == {d \in {tx_client[n].date : n \in DOMAIN tx_client} : d # <<>>}

\* the latest of the dated events
LatestEvent == CHOOSE d \in DatedEvents : \A e \in DatedEvents : ~StampLess(d, e)

\* C27: for a non-empty set of event timestamps, start is the first instant of
\* the month of the latest event, end is the first instant of the next month
\* (January of the next year after December), and every event of that month
\* lies in [start, end).
C27_WindowHoldsLastMonth ==
    (fstep = "span" /\ DatedEvents # {}) =>
        /\ period.start = <<LatestEvent[1], LatestEvent[2], 1, 0>>
        /\ period.end = IF LatestEvent[2] = 12
                        THEN <<LatestEvent[1] + 1, 1, 1, 0>>
                        ELSE <<LatestEvent[1], LatestEvent[2] + 1, 1, 0>>
        /\ \A e \in DatedEvents :
              (e[1] = LatestEvent[1] /\ e[2] = LatestEvent[2])
              => ~StampLess(e, period.start) /\ StampLess(e, period.end)

(***************************************************************************)
(* The batch validator: _push_ok of pipeline_llm.py.                       *)
(***************************************************************************)
\* the issues _push_ok(text) lists; its CTA pattern has no word boundary in
\* front of the alternatives and no "Uznat_" among them
_push_ok(t) ==
    LET alternatives == {"otkrxt_", "oformit_", "podkluqit_", "podkluqite",
                         "posmotret_", "nastroit_"}
        marks == {i \in 0..(Len(t) - 1) : At(t, i) = "!"}
    IN  IF Strip(t) = "" THEN {"pustoy tekst"}
        ELSE (IF Len(t) > MAX_PUSH_LEN THEN {"dlina"} ELSE {}) \cup
             (IF Cardinality(marks) > 1 THEN {"bol_we odnogo '!'"} ELSE {}) \cup
             (IF \E i \in 0..(Len(t) - 1), w \in alternatives : WordAt(t, i, w)
              THEN {} ELSE {"net avnogo CTA"})

\* C29: every notification generate_personalized_push and then ensure_cta
\* produce for a catalog product passes the CTA check of _push_ok.
C29_ValidatorAcceptsCta ==
    (pstep = "repaired" /\ req.product \in Catalog) =>
        "net avnogo CTA" \notin _push_ok(fixed)

(***************************************************************************)
(* The dashboard: compute_one of app.py and the scoring for its top-4.     *)
(***************************************************************************)
\* the keys of feats that score_products reads
ScoreKeys ==
    {"TRAVEL_SPEND", "TOTAL_SPEND", "PREMIUM_SPEND", "ATM_CNT", "TRANSFER_CNT",
     "FAV_SPEND_SUM", "ONLINE_SPEND", "FX_TURNOVER", "NEED_RATIO", "SHORTFALL",
     "FREE_BAL_3M"}

\* one client of the dashboard: the row of the clients table and the client's
\* rows of the two event tables, dated by day only
InitDash ==
    /\ md5 = NoDigests
    /\ InitSendIdle
    /\ InitLoadIdle
    /\ InitTextIdle
    /\ InitPushIdle
    /\ InitScoreIdle
    /\ client \in {row \in ClientRows :
                      row.name = "Aygerim" /\ row.status = "Student" /\ row.city = "Almatx"}
    /\ tx_client \in {RowsOf(TxPool, picked) : picked \in SUBSET DOMAIN TxPool}
    /\ tr_client \in {RowsOf(TrPool, picked) : picked \in SUBSET {3, 4, 5, 6}}
    /\ period = [start |-> 0, end |-> 0]
    /\ fbalance = 0
    /\ fstep = "idle"
    /\ features = NoDigests
    /\ mstep = "row"
    /\ out_rows = <<>>

\* res = compute_one(clients, tx, tr, cid), its fields avg_bal, best and feats;
\* the day numbers of the pools fall into the months [0, 10), [10, 20) and
\* [20, 31), and Timestamp.min lies below every date
ComputeOne ==
    /\ mstep = "row"
    /\ LET val == client.avg_monthly_balance_kzt
           avg_bal == IF val # <<>> THEN val[1] ELSE 0
           month_of(day) == IF day < 10 THEN [start |-> 0, end |-> 10]
                            ELSE IF day < 20 THEN [start |-> 10, end |-> 20]
                            ELSE [start |-> 20, end |-> 31]
           last_day(table) == CHOOSE d \in {table[n].date : n \in DOMAIN table} :
                                 \A n \in DOMAIN table : table[n].date <= d
           span(table) == IF NoDates(table) THEN [start |-> NaT, end |-> NaT]
                          ELSE month_of(last_day(table))
           dspan_tx == span(tx_client)
           dspan_tr == span(tr_client)
           end_tx == IF dspan_tx.end # NaT THEN dspan_tx.end ELSE NaT - 1
           end_tr == IF dspan_tr.end # NaT THEN dspan_tr.end ELSE NaT - 1
           chosen == IF end_tx >= end_tr THEN dspan_tx ELSE dspan_tr
       IN  /\ period' = chosen
           /\ fbalance' = avg_bal
           /\ IF chosen.start = NaT
              THEN /\ best' = 2
                   /\ features' =
                         [TRAVEL_SPEND |-> 0, PREMIUM_SPEND |-> 0, ONLINE_SPEND |-> 0,
                          FX_TURNOVER |-> 0, SHORTFALL |-> 0,
                          FREE_BAL_3M |-> (avg_bal * 3) \div 12,
                          FAV_CATS |-> <<>>, ATM_CNT |-> 0, TRANSFER_CNT |-> 0]
              ELSE \E fav_cats \in top_categories(Window(tx_client, chosen), 3) :
                      /\ features' = compute_features_for_client(tx_client, tr_client,
                                                                 avg_bal, chosen, fav_cats)
                      /\ best' = Top4(ProductScores(features', avg_bal))[1]
    /\ mstep' = "computed"
    /\ UNCHANGED <<md5, client, out_rows, tx_client, tr_client, fstep,
                   feats, avg_balance, sstep, scores, top4, top4_again, best_again,
                   textVars, pushVars, loadVars, sendVars>>

\* _, _, scores = score_products(res["feats"], res["avg_bal"]) for the top-4
\* table; reading a key the record lacks raises KeyError
ShowTop4 ==
    /\ mstep = "computed"
    /\ IF ScoreKeys \subseteq DOMAIN features
       THEN /\ scores' = ProductScores(features, fbalance)
            /\ mstep' = "shown"
       ELSE /\ scores' = scores
            /\ mstep' = "KeyError"
    /\ UNCHANGED <<md5, client, out_rows, featVars,
                   feats, avg_balance, sstep, top4, best, top4_again, best_again,
                   textVars, pushVars, loadVars, sendVars>>

NextDash == ComputeOne \/ ShowTop4

SpecDash == InitDash /\ [][NextDash]_vars

\* C30: the feature record compute_one returns holds every key score_products
\* reads, and scoring it for the top-4 display never fails, also for a client
\* without dated events in either table.
C30_DashboardScoresEveryClient ==
    /\ mstep \in {"computed", "shown", "KeyError"} => ScoreKeys \subseteq DOMAIN features
    /\ mstep # "KeyError"

====
